---- MODULE Spec2Model ----
(***************************************************************************)
(* A model of the moody template engine: the tokenizer, the macro-driven   *)
(* recursive parser (moody/parser.py), the render-time nodes and contexts, *)
(* the loader macros include/block/extends (moody/loader.py) and the       *)
(* block/super nodes of moody/macros.py.                                   *)
(*                                                                         *)
(* Template text is modelled at the level of segments: literal text, an    *)
(* expression tag, a macro tag, a comment, a line break.  The text inside  *)
(* a tag is a sequence of lexemes (words and commas) separated by single   *)
(* spaces.  Python objects are records tagged with their type.             *)
(***************************************************************************)
EXTENDS Integers, Sequences, FiniteSets, TLC

VARIABLES pc, source, extra_macros, sources, cache, defaults, kwargs, compiled, rendered,
          threads, call

vars == <<pc, source, extra_macros, sources, cache, defaults, kwargs, compiled, rendered,
          threads, call>>

(***************************************************************************)
(* Bounds of the model.                                                    *)
(***************************************************************************)
MaxLen == 4

(***************************************************************************)
(* Python values.                                                          *)
(***************************************************************************)
IntV(n) == [t |-> "int", v |-> n]
ListV(s) == [t |-> "list", v |-> s]
StrV(s) == [t |-> "str", v |-> s]
NoneV == [t |-> "NoneType", v |-> 0]
\* A function object, by name.
FuncV(f) == [t |-> "function", v |-> f]
\* A reference to the loader.
LoaderV == [t |-> "Loader", v |-> 0]
\* A Template held as a value.
TemplateV(template) == [t |-> "Template", v |-> template]
\* A dict from block names to lists of fragments.
DictV(d) == [t |-> "dict", v |-> d]

Digits == <<"0", "1", "2", "3", "4", "5", "6", "7", "8", "9">>

RECURSIVE IntStr(_)
IntStr(n) ==
    IF n < 10 THEN Digits[n + 1]
    ELSE IntStr(n \div 10) \o Digits[(n % 10) + 1]

RECURSIVE JoinWith(_, _)
JoinWith(strs, sep) ==
    IF strs = <<>> THEN ""
    ELSE IF Len(strs) = 1 THEN strs[1]
    ELSE strs[1] \o sep \o JoinWith(Tail(strs), sep)

\* repr(): a str is quoted, everything else prints as str() prints it.
RECURSIVE PyRepr(_)
PyRepr(val) ==
    CASE val.t = "int" -> IntStr(val.v)
      [] val.t = "str" -> "'" \o val.v \o "'"
      [] val.t = "NoneType" -> "None"
      [] val.t \in {"function", "Loader", "Template", "dict"} -> "<" \o val.t \o ">"
      [] val.t = "list" ->
            "[" \o JoinWith([i \in 1..Len(val.v) |-> PyRepr(val.v[i])], ", ") \o "]"

\* str()
PyStr(val) == IF val.t = "str" THEN val.v ELSE PyRepr(val)

\* bool(): 0, '', [] and None are false.
Truthy(val) ==
    CASE val.t = "int" -> val.v # 0
      [] val.t = "str" -> val.v # ""
      [] val.t = "list" -> val.v # <<>>
      [] val.t = "NoneType" -> FALSE
      [] val.t = "dict" -> DOMAIN val.v # {}
      [] OTHER -> TRUE

\* The characters of a str, for the strings of the model.
Chars(s) ==
    IF s = "" THEN <<>>
    ELSE IF Len(s) = 1 THEN <<s>>
    ELSE CASE s = "t0" -> <<"t", "0">>
           [] s = "t1" -> <<"t", "1">>
           [] s = "t2" -> <<"t", "2">>
           [] s = "t3" -> <<"t", "3">>
           [] s = "nope" -> <<"n", "o", "p", "e">>

\* Whether iter(val) succeeds.
Iterable(val) == val.t \in {"list", "str"}

\* list(iter(val)), with the characters of a str as str values.
Iter(val) ==
    IF val.t = "list" THEN val.v
    ELSE [i \in 1..Len(Chars(val.v)) |-> StrV(Chars(val.v)[i])]

NotIterable(val) == "'" \o val.t \o "' object is not iterable"

(***************************************************************************)
(* Exceptions.  template_name and template_lineno are set on the two       *)
(* TemplateError classes only.                                             *)
(***************************************************************************)
NoExc == [cls |-> "None", msg |-> "", template_name |-> "", template_lineno |-> 0]

Exc(cls, msg) == [cls |-> cls, msg |-> msg, template_name |-> "", template_lineno |-> 0]

TemplateError(cls, message, template_name, template_lineno) ==
    [cls |-> cls, msg |-> message, template_name |-> template_name,
     template_lineno |-> template_lineno]

TemplateCompileError(message, template_name, template_lineno) ==
    TemplateError("TemplateCompileError", message, template_name, template_lineno)

TemplateRenderError(message, template_name, template_lineno) ==
    TemplateError("TemplateRenderError", message, template_name, template_lineno)

TemplateError_str(e) ==
    e.msg \o " [From " \o e.template_name \o " on line " \o IntStr(e.template_lineno) \o "]"

\* str(ex)
ExcStr(e) ==
    IF e.cls \in {"TemplateCompileError", "TemplateRenderError"}
    THEN TemplateError_str(e) ELSE e.msg

Raised(r) == r.exc.cls # "None"

(***************************************************************************)
(* Template text and the tokenizer.                                        *)
(***************************************************************************)
Text(s) == [kind |-> "text", text |-> s, lex |-> <<>>]
ExprTag(lex) == [kind |-> "expr", text |-> "", lex |-> lex]
MacroTag(lex) == [kind |-> "tag", text |-> "", lex |-> lex]
Comment == [kind |-> "comment", text |-> "", lex |-> <<>>]
NL == [kind |-> "nl", text |-> "\n", lex |-> <<>>]

Token(lineno, type, contents, lexemes) ==
    [lineno |-> lineno, type |-> type, contents |-> contents, lexemes |-> lexemes]

\* The text of a tag: its lexemes separated by single spaces.
TagText(lex) == JoinWith(lex, " ")

\* tokenize, a segment at a time.  index_text is line[index:] up to the
\* segment at i, started says whether the current line has any character.
RECURSIVE tokenize_line(_, _, _, _, _)
tokenize_line(template, i, lineno, index_text, started) ==
    IF i > Len(template)
    THEN IF started THEN <<Token(lineno, "STRING", index_text, <<>>)>> ELSE <<>>
    ELSE LET seg == template[i] IN
         CASE seg.kind = "text" ->
                tokenize_line(template, i + 1, lineno, index_text \o seg.text, TRUE)
           [] seg.kind = "nl" ->
                <<Token(lineno, "STRING", index_text \o seg.text, <<>>)>>
                    \o tokenize_line(template, i + 1, lineno + 1, "", FALSE)
           [] OTHER ->
                (IF index_text # "" THEN <<Token(lineno, "STRING", index_text, <<>>)>> ELSE <<>>)
                \o (IF seg.kind = "expr" /\ seg.lex # <<>>
                        THEN <<Token(lineno, "EXPRESSION", "", seg.lex)>>
                    ELSE IF seg.kind = "tag" /\ seg.lex # <<>>
                        THEN <<Token(lineno, "MACRO", "", seg.lex)>>
                    ELSE <<>>)
                \o tokenize_line(template, i + 1, lineno, "", TRUE)

tokenize(template) == tokenize_line(template, 1, 1, "", FALSE)

(***************************************************************************)
(* The tokenizer on the characters of a template.  A template text is a    *)
(* sequence of one-character strings; RE_TOKEN is                          *)
(*     {#.+?#}|{{\s*(.*?)\s*}}|{%\s*(.*?)\s*%}                             *)
(* and a match of it is [ok, end, type, group]: end is the index after the *)
(* match, group the characters of the group that took part.                *)
(***************************************************************************)
\* str.join of characters
Str(chars) == JoinWith(chars, "")

\* \s, among the characters of the model
IsSpace(ch) == ch \in {" ", "\n"}

\* Whether line has the characters a, b at p and p + 1.
At(line, p, a, b) == p + 1 <= Len(line) /\ line[p] = a /\ line[p + 1] = b

\* The least q >= p with a, b at q and q + 1, or 0.
RECURSIVE FindClose(_, _, _, _)
FindClose(line, p, a, b) ==
    IF p + 1 > Len(line) THEN 0
    ELSE IF At(line, p, a, b) THEN p
    ELSE FindClose(line, p + 1, a, b)

\* chars without the white space \s* takes at its start
RECURSIVE LStrip(_)
LStrip(chars) ==
    IF chars # <<>> /\ IsSpace(Head(chars)) THEN LStrip(Tail(chars)) ELSE chars

\* chars without the white space at its end, which the lazy group leaves
\* to the \s* after it
RECURSIVE RStrip(_)
RStrip(chars) ==
    IF chars # <<>> /\ IsSpace(chars[Len(chars)])
    THEN RStrip(SubSeq(chars, 1, Len(chars) - 1)) ELSE chars

NoToken == [ok |-> FALSE, end |-> 0, type |-> "", group |-> <<>>]

\* The match of one alternative opened at p and closed by a, b at q (0: not
\* closed).
RE_TOKEN_closed(line, p, q, type) ==
    IF q = 0 THEN NoToken
    ELSE [ok |-> TRUE, end |-> q + 2, type |-> type,
          group |-> IF type = "COMMENT" THEN <<>>
                    ELSE RStrip(LStrip(SubSeq(line, p + 2, q - 1)))]

\* RE_TOKEN.match(line, p): the comment needs one character at least, the
\* lazy groups end at the first closing delimiter.
RE_TOKEN_match(line, p) ==
    IF At(line, p, "{", "#")
    THEN RE_TOKEN_closed(line, p, FindClose(line, p + 3, "#", "}"), "COMMENT")
    ELSE IF At(line, p, "{", "{")
    THEN RE_TOKEN_closed(line, p, FindClose(line, p + 2, "}", "}"), "EXPRESSION")
    ELSE IF At(line, p, "{", "%")
    THEN RE_TOKEN_closed(line, p, FindClose(line, p + 2, "%", "}"), "MACRO")
    ELSE NoToken

\* str.split of the contents of a token: the lexemes the expressions and
\* the macros of the model are matched on.
RECURSIVE Lexemes(_, _)
Lexemes(chars, word) ==
    IF chars = <<>> THEN (IF word = <<>> THEN <<>> ELSE <<Str(word)>>)
    ELSE IF IsSpace(Head(chars))
    THEN (IF word = <<>> THEN <<>> ELSE <<Str(word)>>) \o Lexemes(Tail(chars), <<>>)
    ELSE Lexemes(Tail(chars), Append(word, Head(chars)))

\* The tokens yielded at the match m found at p: "if match.start() > index:
\* yield STRING", then "if expression_token: ... elif macro_token: ...".
match_tokens(line, lineno, p, index, m) ==
    (IF p > index THEN <<Token(lineno, "STRING", Str(SubSeq(line, index, p - 1)), <<>>)>>
     ELSE <<>>)
    \o (IF m.type \in {"EXPRESSION", "MACRO"} /\ m.group # <<>>
        THEN <<Token(lineno, m.type, Str(m.group), Lexemes(m.group, <<>>))>>
        ELSE <<>>)

\* "for match in RE_TOKEN.finditer(line)" looking for the next match from p
\* on, then "yield lineno, "STRING", line[index:]".
RECURSIVE finditer(_, _, _, _)
finditer_found(line, lineno, p, index, m) ==
    IF m.ok THEN match_tokens(line, lineno, p, index, m) \o finditer(line, lineno, m.end, m.end)
    ELSE finditer(line, lineno, p + 1, index)

finditer(line, lineno, p, index) ==
    IF p > Len(line) THEN <<Token(lineno, "STRING", Str(SubSeq(line, index, Len(line))), <<>>)>>
    ELSE finditer_found(line, lineno, p, index, RE_TOKEN_match(line, p))

\* template.splitlines(): the lines without their line endings
RECURSIVE splitlines_drop(_, _)
splitlines_drop(chars, line) ==
    IF chars = <<>> THEN (IF line = <<>> THEN <<>> ELSE <<line>>)
    ELSE IF Head(chars) = "\n" THEN <<line>> \o splitlines_drop(Tail(chars), <<>>)
    ELSE splitlines_drop(Tail(chars), Append(line, Head(chars)))

\* template.splitlines(True)
RECURSIVE splitlines(_, _)
splitlines(chars, line) ==
    IF chars = <<>> THEN (IF line = <<>> THEN <<>> ELSE <<line>>)
    ELSE IF Head(chars) = "\n" THEN <<Append(line, "\n")>> \o splitlines(Tail(chars), <<>>)
    ELSE splitlines(Tail(chars), Append(line, Head(chars)))

\* tokenize(template) on the characters of template
RECURSIVE tokenize_lines(_, _)
tokenize_lines(lines, lineno) ==
    IF lineno > Len(lines) THEN <<>>
    ELSE finditer(lines[lineno], lineno, 1, 1) \o tokenize_lines(lines, lineno + 1)

tokenize_text(template) == tokenize_lines(splitlines(template, <<>>), 1)

(***************************************************************************)
(* Names and expressions.                                                  *)
(***************************************************************************)
\* The words that RE_NAME matches, among the words of the model.
Identifiers == {"x", "y", "n", "m", "xs", "test", "value", "zz", "p0", "p1", "p2", "p3"}

\* The literals of the expression language of the model and their values.
LiteralWords == {"0", "1", "'t0'", "'t1'", "'t2'", "'t3'", "'nope'"}

LiteralValue(w) ==
    CASE w = "0" -> IntV(0)
      [] w = "1" -> IntV(1)
      [] w = "'t0'" -> StrV("t0")
      [] w = "'t1'" -> StrV("t1")
      [] w = "'t2'" -> StrV("t2")
      [] w = "'t3'" -> StrV("t3")
      [] w = "'nope'" -> StrV("nope")

\* name.split(","), each part stripped.
RECURSIVE SplitComma(_, _)
SplitComma(lex, part) ==
    IF lex = <<>> THEN <<part>>
    ELSE IF Head(lex) = "," THEN <<part>> \o SplitComma(Tail(lex), <<>>)
    ELSE SplitComma(Tail(lex), Append(part, Head(lex)))

HasComma(lex) == \E i \in 1..Len(lex) : lex[i] = ","

\* Name.__init__: [exc, names, is_expandable]
Name(name) ==
    LET parts == SplitComma(name, <<>>)
        names == IF HasComma(name)
                 THEN [i \in 1..Len(parts) |-> TagText(parts[i])]
                 ELSE <<TagText(name)>>
        valid(i) == /\ (IF HasComma(name) THEN Len(parts[i]) = 1 ELSE Len(name) = 1)
                    /\ names[i] \in Identifiers
        bad == {i \in 1..Len(names) : ~valid(i)}
        first_bad == CHOOSE i \in bad : \A j \in bad : i <= j
    IN  IF HasComma(name) /\ names[Len(names)] = ""
        THEN [exc |-> Exc("NameError", "name 'names' is not defined"),
              names |-> <<>>, is_expandable |-> FALSE]
        ELSE IF bad # {}
        THEN [exc |-> Exc("ValueError", "'" \o names[first_bad]
                              \o "' is not a valid variable name. Only letters, numbers and undescores are allowed."),
              names |-> <<>>, is_expandable |-> FALSE]
        ELSE [exc |-> NoExc, names |-> names, is_expandable |-> HasComma(name)]

\* Expression.__init__: compile(expression, "<string>", "eval").  The
\* expression language of the model is a single identifier or literal.
Expression(expression) ==
    IF Len(expression) = 1 /\ expression[1] \in (Identifiers \cup LiteralWords)
    THEN [exc |-> NoExc, compiled_expression |-> expression[1]]
    ELSE [exc |-> Exc("SyntaxError", "invalid syntax (<string>, line 1)"),
          compiled_expression |-> ""]

\* Expression.eval: eval(compiled_expression, {}, context.params)
Expression_eval(expression, context) ==
    LET w == expression.compiled_expression IN
    IF w \in LiteralWords THEN [exc |-> NoExc, value |-> LiteralValue(w)]
    ELSE IF w \in DOMAIN context.params THEN [exc |-> NoExc, value |-> context.params[w]]
    ELSE [exc |-> Exc("NameError", "name '" \o w \o "' is not defined"), value |-> IntV(0)]

(***************************************************************************)
(* Nodes and fragments.  None is the empty sequence; an optional object is *)
(* a sequence of at most one element.                                      *)
(***************************************************************************)
StringNode(value) == [type |-> "StringNode", lineno |-> 0, value |-> value]

\* ExpressionNode.__init__: [exc, node]
ExpressionNode(expression) ==
    LET e == Expression(expression) IN
    [exc |-> e.exc, node |-> [type |-> "ExpressionNode", lineno |-> 0, expression |-> e]]

TemplateFragment(nodes, name) == [_nodes |-> nodes, _name |-> name]

IfNode(clauses, else_block) ==
    [type |-> "IfNode", lineno |-> 0, clauses |-> clauses, else_block |-> else_block]

ForNode(name, expression, block) ==
    [type |-> "ForNode", lineno |-> 0, name |-> name, expression |-> expression, block |-> block]

IncludeNode(expression) == [type |-> "IncludeNode", lineno |-> 0, expression |-> expression]

BlockNode(name, block) == [type |-> "BlockNode", lineno |-> 0, name |-> name, block |-> block]

ExtendsNode(expression, block_nodes) ==
    [type |-> "ExtendsNode", lineno |-> 0, expression |-> expression, block_nodes |-> block_nodes]

SuperNode == [type |-> "SuperNode", lineno |-> 0]

\* The node a caller-supplied macro builds.
CustomNode(text) == [type |-> "CustomNode", lineno |-> 0, value |-> text]

Template(nodes, name, default_params) ==
    [_nodes |-> nodes, _name |-> name, _default_params |-> default_params]

(***************************************************************************)
(* The grammars: each regular expression as a predicate on the lexemes of  *)
(* a tag, with the groups it captures.                                     *)
(***************************************************************************)
NoMatch == [ok |-> FALSE, groups |-> <<>>]

\* "^if\s+(.+?)$", "^include\s+(.+?)$", "^extends\s+(.+?)$"
MatchKeywordRest(keyword, lex) ==
    IF Len(lex) >= 2 /\ lex[1] = keyword
    THEN [ok |-> TRUE, groups |-> <<Tail(lex)>>] ELSE NoMatch

\* "^for\s+(.+?)\s+in\s+(.+?)$": the first "in" that leaves a name before
\* it and an expression after it.
MatchFor(lex) ==
    LET ins == {j \in 3..(Len(lex) - 1) : lex[j] = "in"}
        j0 == CHOOSE j \in ins : \A k \in ins : j <= k
    IN  IF Len(lex) >= 4 /\ lex[1] = "for" /\ ins # {}
        THEN [ok |-> TRUE, groups |-> <<SubSeq(lex, 2, j0 - 1), SubSeq(lex, j0 + 1, Len(lex))>>]
        ELSE NoMatch

\* The names "[a-zA-Z_][a-zA-Z_\-0-9]*" matches, among the words of the model.
BlockNames == {"a", "b", "n"}

\* "^block\s+([a-zA-Z_][a-zA-Z_\-0-9]*)$"
MatchBlock(lex) ==
    IF Len(lex) = 2 /\ lex[1] = "block" /\ lex[2] \in BlockNames
    THEN [ok |-> TRUE, groups |-> <<lex[2]>>] ELSE NoMatch

\* "^super$"
MatchSuper(lex) == IF lex = <<"super">> THEN [ok |-> TRUE, groups |-> <<>>] ELSE NoMatch

\* "^(.+)$": the grammar of the caller-supplied macro of the model.
MatchAny(lex) == IF lex # <<>> THEN [ok |-> TRUE, groups |-> <<lex>>] ELSE NoMatch

\* RE_IF_CLAUSE: groups elif_flag, elif_expression, else_flag, endif_flag
RE_IF_CLAUSE == [re |-> "RE_IF_CLAUSE", name |-> ""]
RE_ENDFOR == [re |-> "RE_ENDFOR", name |-> ""]
\* re.compile("^endblock$|^endblock\s+{}$".format(name))
RE_ENDBLOCK(name) == [re |-> "RE_ENDBLOCK", name |-> name]

regex_match(regex, lex) ==
    CASE regex.re = "RE_IF_CLAUSE" ->
            IF Len(lex) >= 2 /\ lex[1] = "elif"
                THEN [ok |-> TRUE, groups |-> <<<<"elif">>, Tail(lex), <<>>, <<>>>>]
            ELSE IF lex = <<"else">>
                THEN [ok |-> TRUE, groups |-> <<<<>>, <<>>, <<"else">>, <<>>>>]
            ELSE IF lex = <<"endif">>
                THEN [ok |-> TRUE, groups |-> <<<<>>, <<>>, <<>>, <<"endif">>>>]
            ELSE NoMatch
      [] regex.re = "RE_ENDFOR" ->
            IF lex = <<"endfor">> THEN [ok |-> TRUE, groups |-> <<>>] ELSE NoMatch
      [] regex.re = "RE_ENDBLOCK" ->
            IF lex = <<"endblock">> \/ lex = <<"endblock", regex.name>>
            THEN [ok |-> TRUE, groups |-> <<>>] ELSE NoMatch

\* The grammar each macro is decorated with (regex_macro).
macro_match(macro, lex) ==
    CASE macro = "if_macro" -> MatchKeywordRest("if", lex)
      [] macro = "for_macro" -> MatchFor(lex)
      [] macro = "include_macro" -> MatchKeywordRest("include", lex)
      [] macro = "block_macro" -> MatchBlock(lex)
      [] macro = "extends_macro" -> MatchKeywordRest("extends", lex)
      [] macro = "super_macro" -> MatchSuper(lex)
      [] macro = "catch_all_macro" -> MatchAny(lex)

DEFAULT_MACROS == <<"if_macro", "for_macro">>

DEFAULT_LOADER_MACROS == <<"include_macro", "block_macro", "extends_macro">>

(***************************************************************************)
(* The parser.  A ParserRun is [tokens, name, macros]; the position of the *)
(* token iterator is passed along as pos (the index of the next token).    *)
(* Every parsing operator returns [exc, value, pos, lineno, tried]: the    *)
(* exception raised if any, the value returned, the iterator's position    *)
(* afterwards, the value of the chunk's lineno variable, and the ghost log *)
(* tried of the macros invoked so far, as <<token index, macro>>.          *)
(***************************************************************************)
ParserRun(template, name, macros) ==
    [tokens |-> tokenize(template), name |-> name, macros |-> macros]

PResult(exc, value, pos, lineno, tried) ==
    [exc |-> exc, value |-> value, pos |-> pos, lineno |-> lineno, tried |-> tried]

\* "{{% {} %}} is not a recognized tag.".format(token_contents)
NotRecognized(token_contents) ==
    "{% " \o TagText(token_contents) \o " %} is not a recognized tag."

\* "{% {} %} tag could not find a corresponding {% {} %}.".format(start_tag, end_tag):
\* the braces of the tags are not doubled, so str.format raises ValueError
\* before any message is built.
NoCorresponding(start_tag, end_tag) ==
    Exc("ValueError", "unexpected '{' in field name")

\* parse_all_nodes with a handler that lets an unmatched tag pass.
all_nodes_handler_silent(token_contents, nodes) == [exc |-> NoExc, value |-> nodes]

\* The end_chunk_handler of parse_all_nodes.
all_nodes_handler(token_contents, nodes) ==
    IF token_contents # <<>>
    THEN [exc |-> Exc("SyntaxError", NotRecognized(token_contents)), value |-> <<>>]
    ELSE [exc |-> NoExc, value |-> nodes]

\* The end_chunk_handler of parse_block.
block_handler(handler, name, token_contents, nodes) ==
    IF token_contents = <<>>
    THEN [exc |-> NoCorresponding(handler.start_tag, handler.end_tag), value |-> <<>>]
    ELSE IF ~regex_match(handler.regex, token_contents).ok
    THEN [exc |-> Exc("SyntaxError", NotRecognized(token_contents)), value |-> <<>>]
    ELSE [exc |-> NoExc,
          value |-> [match |-> regex_match(handler.regex, token_contents),
                     block |-> TemplateFragment(nodes, name)]]

end_chunk_handler(handler, name, token_contents, nodes) ==
    IF handler.h = "all" THEN all_nodes_handler(token_contents, nodes)
    ELSE block_handler(handler, name, token_contents, nodes)

AllNodes == [h |-> "all", start_tag |-> "", end_tag |-> "", regex |-> RE_ENDFOR]
Block(start_tag, end_tag, regex) ==
    [h |-> "block", start_tag |-> start_tag, end_tag |-> end_tag, regex |-> regex]

RECURSIVE chunk_loop(_, _, _, _, _, _)
RECURSIVE try_macros(_, _, _, _, _)
RECURSIVE call_macro(_, _, _, _, _)
RECURSIVE if_loop(_, _, _, _, _, _, _)

\* The except clauses of parse_template_chunk, applied to the outcome r of
\* its loop.
chunk_except(run, r) ==
    IF r.exc.cls \in {"None", "TemplateCompileError"} THEN r
    ELSE [r EXCEPT !.exc = TemplateCompileError(ExcStr(r.exc), run.name, r.lineno)]

\* ParserRun.parse_template_chunk
parse_template_chunk(run, pos, tried, handler) ==
    chunk_except(run, chunk_loop(run, pos, tried, <<>>, 0, handler))

\* ParserRun.parse_all_nodes
parse_all_nodes(run, pos, tried) == parse_template_chunk(run, pos, tried, AllNodes)

\* ParserRun.parse_block
parse_block(run, pos, tried, start_tag, end_tag, regex) ==
    parse_template_chunk(run, pos, tried, Block(start_tag, end_tag, regex))

\* "return end_chunk_handler(...)": h is what the handler did.
chunk_end(h, pos, lineno, tried) == PResult(h.exc, h.value, pos, lineno, tried)

\* parse_template_chunk at an EXPRESSION token; e is ExpressionNode(token_contents).
chunk_expression(run, pos, tried, nodes, handler, tok, e) ==
    IF Raised(e) THEN PResult(e.exc, <<>>, pos + 1, tok.lineno, tried)
    ELSE chunk_loop(run, pos + 1, tried,
                    Append(nodes, [e.node EXCEPT !.lineno = tok.lineno]),
                    tok.lineno, handler)

\* parse_template_chunk at a MACRO token; m is the outcome of the macro loop.
chunk_macro(run, nodes, handler, tok, m) ==
    IF Raised(m) THEN PResult(m.exc, <<>>, m.pos, tok.lineno, m.tried)
    ELSE IF m.value # <<>>
    THEN chunk_loop(run, m.pos, m.tried,
                    Append(nodes, [m.value[1] EXCEPT !.lineno = tok.lineno]),
                    tok.lineno, handler)
    ELSE chunk_end(end_chunk_handler(handler, run.name, tok.lexemes, nodes),
                   m.pos, tok.lineno, m.tried)

\* The loop of parse_template_chunk over the tokens from pos on.
chunk_loop(run, pos, tried, nodes, lineno, handler) ==
    IF pos > Len(run.tokens)
    THEN chunk_end(end_chunk_handler(handler, run.name, <<>>, nodes), pos, lineno, tried)
    ELSE CASE run.tokens[pos].type = "STRING" ->
                chunk_loop(run, pos + 1, tried,
                           Append(nodes, [StringNode(run.tokens[pos].contents)
                                              EXCEPT !.lineno = run.tokens[pos].lineno]),
                           run.tokens[pos].lineno, handler)
           [] run.tokens[pos].type = "EXPRESSION" ->
                chunk_expression(run, pos, tried, nodes, handler, run.tokens[pos],
                                 ExpressionNode(run.tokens[pos].lexemes))
           [] run.tokens[pos].type = "MACRO" ->
                chunk_macro(run, nodes, handler, run.tokens[pos],
                            try_macros(run, pos + 1, tried, run.tokens[pos].lexemes, 1))

\* "node = macro(self, token_contents); if node: break": m is what the
\* k-th macro did.
try_macros_next(run, token_contents, k, m) ==
    IF Raised(m) \/ m.value # <<>> THEN m
    ELSE try_macros(run, m.pos, m.tried, token_contents, k + 1)

\* "for macro in self.macros: ..." from the k-th macro on.  value is <<node>>,
\* or <<>> when no macro matched.
try_macros(run, pos, tried, token_contents, k) ==
    IF k > Len(run.macros) THEN PResult(NoExc, <<>>, pos, 0, tried)
    ELSE try_macros_next(run, token_contents, k,
                         call_macro(run.macros[k], run, pos,
                                    Append(tried, <<pos - 1, run.macros[k]>>), token_contents))

\* if_macro without its checks of the order of elif and else.
if_clause_unordered(run, b, e, expression, clauses, else_tag, else_block) ==
    IF Raised(b) THEN b
    ELSE IF ~else_tag /\ Raised(e) THEN PResult(e.exc, <<>>, b.pos, 0, b.tried)
    ELSE IF b.value.match.groups[1] # <<>>
    THEN if_loop(run, b.pos, b.tried, b.value.match.groups[2],
                 Append(clauses, [expression |-> e, block |-> b.value.block]),
                 else_tag, else_block)
    ELSE IF b.value.match.groups[3] # <<>>
    THEN if_loop(run, b.pos, b.tried, expression,
                 Append(clauses, [expression |-> e, block |-> b.value.block]),
                 TRUE, else_block)
    ELSE PResult(NoExc,
                 <<IfNode(IF else_tag THEN clauses
                          ELSE Append(clauses, [expression |-> e, block |-> b.value.block]),
                          IF else_tag THEN <<b.value.block>> ELSE else_block)>>,
                 b.pos, 0, b.tried)

\* if_macro: the body of its while loop after parse_block returned b;
\* e is Expression(expression).
if_clause(run, b, e, expression, clauses, else_tag, else_block) ==
    IF Raised(b) THEN b
    ELSE IF ~else_tag /\ Raised(e) THEN PResult(e.exc, <<>>, b.pos, 0, b.tried)
    ELSE IF b.value.match.groups[1] # <<>>
    THEN IF else_tag
         THEN PResult(Exc("SyntaxError", "{{% elif %}} tag cannot come after {{% else %}}."),
                      <<>>, b.pos, 0, b.tried)
         ELSE if_loop(run, b.pos, b.tried, b.value.match.groups[2],
                      Append(clauses, [expression |-> e, block |-> b.value.block]),
                      else_tag, else_block)
    ELSE IF b.value.match.groups[3] # <<>>
    THEN IF else_tag
         THEN PResult(Exc("SyntaxError", "Only one {{% else %}} tag is allowed per {{% if %}} macro."),
                      <<>>, b.pos, 0, b.tried)
         ELSE if_loop(run, b.pos, b.tried, expression,
                      Append(clauses, [expression |-> e, block |-> b.value.block]),
                      TRUE, else_block)
    ELSE PResult(NoExc,
                 <<IfNode(IF else_tag THEN clauses
                          ELSE Append(clauses, [expression |-> e, block |-> b.value.block]),
                          IF else_tag THEN <<b.value.block>> ELSE else_block)>>,
                 b.pos, 0, b.tried)

\* if_macro: one turn of its while loop.
if_loop(run, pos, tried, expression, clauses, else_tag, else_block) ==
    if_clause(run, parse_block(run, pos, tried, "if", "endif", RE_IF_CLAUSE),
              Expression(expression), expression, clauses, else_tag, else_block)

if_macro(run, pos, tried, expression) ==
    if_loop(run, pos, tried, expression, <<>>, FALSE, <<>>)

\* for_macro after parse_block returned b: ForNode(Name(name), Expression(expression), block)
for_node(b, n, e) ==
    IF Raised(b) THEN b
    ELSE IF Raised(n) THEN PResult(n.exc, <<>>, b.pos, 0, b.tried)
    ELSE IF Raised(e) THEN PResult(e.exc, <<>>, b.pos, 0, b.tried)
    ELSE PResult(NoExc, <<ForNode(n, e, b.value.block)>>, b.pos, 0, b.tried)

\* A for_macro that leaves the iterator where it was before its block.
for_macro_rewound(run, pos, tried, name, expression) ==
    [for_node(parse_block(run, pos, tried, "for", "endfor", RE_ENDFOR),
              Name(name), Expression(expression)) EXCEPT !.pos = pos]

for_macro(run, pos, tried, name, expression) ==
    for_node(parse_block(run, pos, tried, "for", "endfor", RE_ENDFOR),
             Name(name), Expression(expression))

\* include_macro: IncludeNode(Expression(expression))
include_node(pos, tried, e) ==
    IF Raised(e) THEN PResult(e.exc, <<>>, pos, 0, tried)
    ELSE PResult(NoExc, <<IncludeNode(e)>>, pos, 0, tried)

include_macro(run, pos, tried, expression) == include_node(pos, tried, Expression(expression))

\* block_macro after parse_block returned b
block_node(name, b) ==
    IF Raised(b) THEN b
    ELSE PResult(NoExc, <<BlockNode(name, b.value.block)>>, b.pos, 0, b.tried)

block_macro(run, pos, tried, name) ==
    block_node(name, parse_block(run, pos, tried, "block", "endblock", RE_ENDBLOCK(name)))

\* extends_macro after parse_all_nodes returned r
extends_node(r, e) ==
    IF Raised(r) THEN r
    ELSE IF Raised(e) THEN PResult(e.exc, <<>>, r.pos, 0, r.tried)
    ELSE PResult(NoExc,
                 <<ExtendsNode(e, SelectSeq(r.value, LAMBDA node : node.type = "BlockNode"))>>,
                 r.pos, 0, r.tried)

extends_macro(run, pos, tried, expression) ==
    extends_node(parse_all_nodes(run, pos, tried), Expression(expression))

super_macro(run, pos, tried) == PResult(NoExc, <<SuperNode>>, pos, 0, tried)

\* A macro supplied by the caller of compile, decorated with "^(.+)$".
catch_all_macro(run, pos, tried, text) ==
    PResult(NoExc, <<CustomNode(TagText(text))>>, pos, 0, tried)

\* The wrapper regex_macro builds around a macro function.
macro_wrapper(macro, run, pos, tried, match) ==
    IF ~match.ok THEN PResult(NoExc, <<>>, pos, 0, tried)
    ELSE CASE macro = "if_macro" -> if_macro(run, pos, tried, match.groups[1])
           [] macro = "for_macro" -> for_macro(run, pos, tried, match.groups[1], match.groups[2])
           [] macro = "include_macro" -> include_macro(run, pos, tried, match.groups[1])
           [] macro = "block_macro" -> block_macro(run, pos, tried, match.groups[1])
           [] macro = "extends_macro" -> extends_macro(run, pos, tried, match.groups[1])
           [] macro = "super_macro" -> super_macro(run, pos, tried)
           [] macro = "catch_all_macro" -> catch_all_macro(run, pos, tried, match.groups[1])

call_macro(macro, run, pos, tried, token) ==
    macro_wrapper(macro, run, pos, tried, macro_match(macro, token))

\* The Template an outcome r of parse_all_nodes gives: [exc, template, tried]
compiled_template(r, name, default_params) ==
    [exc |-> r.exc,
     template |-> IF Raised(r) THEN <<>> ELSE <<Template(r.value, name, default_params)>>,
     tried |-> r.tried]

\* Parser.compile trying the caller's macros before the parser's own.
Parser_compile_extra_first(parser_macros, template, name, default_params, extra) ==
    compiled_template(parse_all_nodes(ParserRun(template, name, extra \o parser_macros), 1, <<>>),
                      name, default_params)

\* Parser.compile of a parser whose macros are parser_macros
Parser_compile(parser_macros, template, name, default_params, extra) ==
    compiled_template(parse_all_nodes(ParserRun(template, name, parser_macros \o extra), 1, <<>>),
                      name, default_params)

\* default_parser.compile
compile(template, name, default_params, extra) ==
    Parser_compile(DEFAULT_MACROS, template, name, default_params, extra)

\* default_parser.compile of a template given by its characters
compile_text(template, name, default_params) ==
    compiled_template(parse_all_nodes([tokens |-> tokenize_text(template), name |-> name,
                                       macros |-> DEFAULT_MACROS], 1, <<>>),
                      name, default_params)

(***************************************************************************)
(* Rendering.  A context is threaded through the render operators as a     *)
(* record c = [params, buffer, loader, exc, trace, meta]: the params dict  *)
(* and the buffer of the Context, the loader the templates were created by *)
(* (its sources and its cache), the exception being raised if any, and the *)
(* ghost log trace of the fragments the exception has passed through,      *)
(* innermost first, as [name, lineno, wrapped].  Its depth is the number   *)
(* of template renders in progress inside the render of the call.          *)
(***************************************************************************)
\* params[k] = v
Put(d, k, v) == [x \in (DOMAIN d) \cup {k} |-> IF x = k THEN v ELSE d[x]]

\* dict.update
Update(d, e) == [x \in (DOMAIN d) \cup (DOMAIN e) |-> IF x \in DOMAIN e THEN e[x] ELSE d[x]]

\* The Context of parser.py has no meta: its meta is None.
Context(params, buffer, loader) ==
    [params |-> params, buffer |-> buffer, loader |-> loader, exc |-> NoExc, trace |-> <<>>,
     meta |-> <<>>, depth |-> 0]

\* The nested template renders the interpreter's stack has room for: depth
\* is the number of them in progress in a context.
RecursionLimit == 5

\* What the interpreter raises in the call that exceeds its stack.
RecursionError == Exc("RecursionError", "maximum recursion depth exceeded")

\* "raise exc" in context c
Raise(c, exc) == [c EXCEPT !.exc = exc]

\* Context.read
Context_read(c) == JoinWith(c.buffer, "")

\* Leaving a sub-context that was given a copy of the buffer: what the body
\* appended is not in the buffer of context.
Context_block_exit_copied(c, s) ==
    [s EXCEPT !.buffer = c.buffer,
              !.depth = c.depth,
              !.params = IF "__blocks__" \in DOMAIN c.params
                         THEN Put(c.params, "__blocks__", s.params["__blocks__"])
                         ELSE c.params]

\* Leaving "with context.block() as sub_context": s is the sub-context after
\* the body.  The buffer is shared; sub_context.params is a shallow copy of
\* context.params, so the "__blocks__" dict of context, when it has one, is
\* the very dict the body has changed.
Context_block_exit(c, s) ==
    [s EXCEPT !.depth = c.depth,
              !.params = IF "__blocks__" \in DOMAIN c.params
                         THEN Put(c.params, "__blocks__", s.params["__blocks__"])
                         ELSE c.params]

\* "for name_part in self.names: context.params[name_part] = next(value)"
\* from the k-th name on, over the items of value.
RECURSIVE Name_set_parts(_, _, _, _)
Name_set_parts(name, params, items, k) ==
    IF k > Len(name.names)
    THEN IF Len(items) >= k
         THEN [exc |-> Exc("ValueError", "Need more that " \o IntStr(Len(name.names))
                                              \o " values to unpack."),
               params |-> params]
         ELSE [exc |-> NoExc, params |-> params]
    ELSE IF k > Len(items)
    THEN [exc |-> Exc("ValueError", "Not enough values to unpack."), params |-> params]
    ELSE Name_set_parts(name, Put(params, name.names[k], items[k]), items, k + 1)

\* Name.set with a target of several names ignoring the values past the last name.
Name_set_lenient(name, params, value) ==
    IF name.is_expandable
    THEN IF ~Iterable(value) THEN [exc |-> Exc("TypeError", NotIterable(value)), params |-> params]
         ELSE IF Len(Iter(value)) > Len(name.names)
         THEN Name_set_parts(name, params, SubSeq(Iter(value), 1, Len(name.names)), 1)
         ELSE Name_set_parts(name, params, Iter(value), 1)
    ELSE [exc |-> NoExc, params |-> Put(params, name.names[1], value)]

\* Name.set: [exc, params]
Name_set(name, params, value) ==
    IF name.is_expandable
    THEN IF ~Iterable(value) THEN [exc |-> Exc("TypeError", NotIterable(value)), params |-> params]
         ELSE Name_set_parts(name, params, Iter(value), 1)
    ELSE [exc |-> NoExc, params |-> Put(params, name.names[1], value)]

\* xml.sax.saxutils.escape, on the strings of the model.
escape(data) ==
    CASE data = "&" -> "&amp;"
      [] data = "<" -> "&lt;"
      [] data = ">" -> "&gt;"
      [] OTHER -> data

\* StringNode.render
StringNode_render(node, c) == [c EXCEPT !.buffer = Append(@, node.value)]

\* autoescape(value), value being a str: [exc, value].  The functions of the
\* model are escape and the "lambda v: "bar"" of tests.py; anything else is
\* not callable.
autoescape_call(autoescape, value) ==
    IF autoescape.t # "function"
    THEN [exc |-> Exc("TypeError", "'" \o autoescape.t \o "' object is not callable"),
          value |-> ""]
    ELSE [exc |-> NoExc, value |-> IF autoescape.v = "escape" THEN escape(value) ELSE "bar"]

\* "context.buffer.append(value)" after "value = autoescape(value)" returned
\* or raised r
ExpressionNode_escaped(c, r) ==
    IF Raised(r) THEN Raise(c, r.exc) ELSE [c EXCEPT !.buffer = Append(@, r.value)]

\* ExpressionNode.render without "if autoescape: value = autoescape(value)"
ExpressionNode_append_raw(c, v) ==
    IF Raised(v) THEN Raise(c, v.exc) ELSE [c EXCEPT !.buffer = Append(@, PyStr(v.value))]

\* ExpressionNode.render after the expression evaluated to v
ExpressionNode_append(c, v) ==
    IF Raised(v) THEN Raise(c, v.exc)
    ELSE IF "__autoescape__" \in DOMAIN c.params /\ Truthy(c.params["__autoescape__"])
    THEN ExpressionNode_escaped(c, autoescape_call(c.params["__autoescape__"],
                                                   PyStr(v.value)))
    ELSE [c EXCEPT !.buffer = Append(@, PyStr(v.value))]

\* ExpressionNode.render
ExpressionNode_render(node, c) == ExpressionNode_append(c, Expression_eval(node.expression, c))

(***************************************************************************)
(* The loader.  A loader is [sources, cache]: the MemorySource dicts in    *)
(* the order given, and the _cache dict from a template name to the list   *)
(* of templates _load_all returned for it.                                 *)
(***************************************************************************)
\* os.path.splitext(template_name)[1], for the template names of the model:
\* what follows the last dot, the dot included, when the name has one.
splitext(template_name) ==
    CASE template_name \in {"t0.html", "nope.html"} -> ".html"
      [] template_name = "t1.txt" -> ".txt"
      [] template_name = "t4.HTML" -> ".HTML"
      [] OTHER -> ""

\* An autoescape mapping that has no extension.
NO_AUTOESCAPE_FUNCTIONS(extension) == NoneV

\* DEFAULT_AUTOESCAPE_FUNCTIONS.get(extension)
DEFAULT_AUTOESCAPE_FUNCTIONS(extension) ==
    IF extension \in {".xml", ".xhtml", ".html", ".htm"} THEN FuncV("escape") ELSE NoneV

\* The default_params _load_all gives a template, templates being those
\* loaded from the sources before it.
loader_default_params(template_name, templates) ==
    [__autoescape__ |-> DEFAULT_AUTOESCAPE_FUNCTIONS(splitext(template_name)),
     __loader__ |-> LoaderV,
     __super__ |-> IF templates # <<>> THEN TemplateV(templates[Len(templates)]) ELSE NoneV]

RECURSIVE DebugLoader_load_all(_, _, _, _)

\* "templates.append(self._parser.compile(...))": t is what compile did.
load_all_append(loader, template_name, k, templates, t) ==
    IF Raised(t) THEN [exc |-> t.exc, templates |-> <<>>]
    ELSE DebugLoader_load_all(loader, template_name, k + 1, Append(templates, t.template[1]))

\* DebugLoader._load_all from the k-th source on: [exc, templates]
DebugLoader_load_all(loader, template_name, k, templates) ==
    IF k > Len(loader.sources) THEN [exc |-> NoExc, templates |-> templates]
    ELSE IF template_name \notin DOMAIN loader.sources[k]
    THEN DebugLoader_load_all(loader, template_name, k + 1, templates)
    ELSE load_all_append(loader, template_name, k, templates,
                         Parser_compile(DEFAULT_MACROS, loader.sources[k][template_name],
                                        template_name,
                                        loader_default_params(template_name, templates),
                                        DEFAULT_LOADER_MACROS))

\* A store that keeps only the lists that hold a template.
Loader_cache_store_found(loader, template_name, r) ==
    [exc |-> r.exc, templates |-> r.templates,
     loader |-> IF Raised(r) \/ r.templates = <<>> THEN loader
                ELSE [loader EXCEPT !.cache = Put(@, template_name, r.templates)]]

\* "self._cache[template_name] = template; return template"
Loader_cache_store(loader, template_name, r) ==
    [exc |-> r.exc, templates |-> r.templates,
     loader |-> IF Raised(r) THEN loader
                ELSE [loader EXCEPT !.cache = Put(@, template_name, r.templates)]]

\* Loader._load_all: [exc, templates, loader]
Loader_load_all(loader, template_name) ==
    IF template_name \in DOMAIN loader.cache
    THEN [exc |-> NoExc, templates |-> loader.cache[template_name], loader |-> loader]
    ELSE Loader_cache_store(loader, template_name,
                            DebugLoader_load_all(loader, template_name, 1, <<>>))

\* ", ".join(str(source) for source in self._sources)
source_name_str(loader) == JoinWith([k \in 1..Len(loader.sources) |-> "<memory>"], ", ")

\* Loader.clear_cache leaving the cache as it is.
clear_cache_keep(loader) == loader

\* Loader.clear_cache: self._cache.clear()
clear_cache(loader) == [loader EXCEPT !.cache = <<>>]

\* The message naming the first template name only.
template_name_str_first(template_names) == PyRepr(StrV(template_names[1]))

\* ", ".join(repr(template_name) for template_name in template_names)
template_name_str(template_names) ==
    JoinWith([k \in 1..Len(template_names) |-> PyRepr(StrV(template_names[k]))], ", ")

RECURSIVE load_loop(_, _, _)

\* load returning the template of the first source that has the name.
load_result_first(template_names, k, r) ==
    IF Raised(r) THEN [exc |-> r.exc, template |-> <<>>, loader |-> r.loader]
    ELSE IF r.templates # <<>>
    THEN [exc |-> NoExc, template |-> <<r.templates[1]>>, loader |-> r.loader]
    ELSE load_loop(r.loader, template_names, k + 1)

\* The body of "for template_name in template_names", r being what
\* _load_all returned or raised for the k-th name.
load_result(template_names, k, r) ==
    IF Raised(r) THEN [exc |-> r.exc, template |-> <<>>, loader |-> r.loader]
    ELSE IF r.templates # <<>>
    THEN [exc |-> NoExc, template |-> <<r.templates[Len(r.templates)]>>, loader |-> r.loader]
    ELSE load_loop(r.loader, template_names, k + 1)

\* "for template_name in template_names" from the k-th name on, and the
\* TemplateDoesNotExist after it.
load_loop(loader, template_names, k) ==
    IF k > Len(template_names)
    THEN [exc |-> Exc("TemplateDoesNotExist",
                      "Could not find a template named " \o template_name_str(template_names)
                          \o " in any of " \o source_name_str(loader) \o "."),
          template |-> <<>>, loader |-> loader]
    ELSE load_result(template_names, k, Loader_load_all(loader, template_names[k]))

\* Loader.load(*template_names): [exc, template, loader]
load_names(loader, template_names) ==
    IF template_names = <<>>
    THEN [exc |-> Exc("ValueError", "You must specify at least one template name."),
          template |-> <<>>, loader |-> loader]
    ELSE load_loop(loader, template_names, 1)

\* Loader.load(template_name)
load(loader, template_name) == load_names(loader, <<template_name>>)

\* get_template(context, template): [exc, template, loader]
get_template(c, template) ==
    IF template.t = "Template"
    THEN [exc |-> NoExc, template |-> <<template.v>>, loader |-> c.loader]
    ELSE IF template.t = "str"
    THEN IF "__loader__" \in DOMAIN c.params THEN load(c.loader, template.v)
         ELSE [exc |-> Exc("ValueError", "Cannot load template named " \o PyRepr(template)
                               \o ", as this template was not created by a Loader."),
               template |-> <<>>, loader |-> c.loader]
    ELSE [exc |-> Exc("TypeError", "Expected a Template or a str, found "
                          \o PyRepr(template) \o "."),
          template |-> <<>>, loader |-> c.loader]

\* get_template(context, self.expression.eval(context)), the expression
\* having evaluated to v.
get_template_of(c, v) ==
    IF Raised(v) THEN [exc |-> v.exc, template |-> <<>>, loader |-> c.loader]
    ELSE get_template(c, v.value)

(***************************************************************************)
(* Node.render and TemplateFragment._render_to_context.                    *)
(***************************************************************************)
RECURSIVE Node_render(_, _)
RECURSIVE fragment_loop(_, _, _)
RECURSIVE IfNode_loop(_, _, _)
RECURSIVE ForNode_loop(_, _, _, _)

\* _render_to_context catching every exception alike.
fragment_except_all(fragment, node, c) ==
    IF ~Raised(c) THEN c
    ELSE [c EXCEPT !.exc = TemplateRenderError(ExcStr(c.exc), fragment._name, node.lineno),
                   !.trace = Append(@, [name |-> fragment._name, lineno |-> node.lineno,
                                        wrapped |-> TRUE])]

\* The except clauses of _render_to_context around node.render(context),
\* c being the context when node.render returned or raised.
fragment_except(fragment, node, c) ==
    IF ~Raised(c) THEN c
    ELSE IF c.exc.cls = "TemplateRenderError"
    THEN [c EXCEPT !.trace = Append(@, [name |-> fragment._name, lineno |-> node.lineno,
                                        wrapped |-> FALSE])]
    ELSE [c EXCEPT !.exc = TemplateRenderError(ExcStr(c.exc), fragment._name, node.lineno),
                   !.trace = Append(@, [name |-> fragment._name, lineno |-> node.lineno,
                                        wrapped |-> TRUE])]

\* "for node in self._nodes" goes on unless the k-th node raised.
fragment_next(fragment, k, c) ==
    IF Raised(c) THEN c ELSE fragment_loop(fragment, k + 1, c)

\* "for node in self._nodes" from the k-th node on.
fragment_loop(fragment, k, c) ==
    IF k > Len(fragment._nodes) THEN c
    ELSE fragment_next(fragment, k,
                       fragment_except(fragment, fragment._nodes[k],
                                       Node_render(fragment._nodes[k], c)))

\* TemplateFragment._render_to_context
render_to_context(fragment, c) == fragment_loop(fragment, 1, c)

\* IfNode.render going on to the next clause after rendering a block.
IfNode_clause_no_return(node, k, c, v) ==
    IF Raised(v) THEN Raise(c, v.exc)
    ELSE IF Truthy(v.value)
    THEN IfNode_loop(node, k + 1, render_to_context(node.clauses[k].block, c))
    ELSE IfNode_loop(node, k + 1, c)

\* IfNode.render at its k-th clause, whose expression evaluated to v.
IfNode_clause(node, k, c, v) ==
    IF Raised(v) THEN Raise(c, v.exc)
    ELSE IF Truthy(v.value) THEN render_to_context(node.clauses[k].block, c)
    ELSE IfNode_loop(node, k + 1, c)

\* IfNode.render from its k-th clause on.
IfNode_loop(node, k, c) ==
    IF Raised(c) THEN c
    ELSE IF k > Len(node.clauses)
    THEN IF node.else_block # <<>> THEN render_to_context(node.else_block[1], c) ELSE c
    ELSE IfNode_clause(node, k, c, Expression_eval(node.clauses[k].expression, c))

IfNode_render(node, c) == IfNode_loop(node, 1, c)

\* "for item in items" goes on unless the block raised.
ForNode_next(node, items, k, c) ==
    IF Raised(c) THEN c ELSE ForNode_loop(node, items, k + 1, c)

\* The body of "for item in items", s being what self.name.set did.
ForNode_item(node, items, k, c, s) ==
    IF Raised(s) THEN [c EXCEPT !.exc = s.exc, !.params = s.params]
    ELSE ForNode_next(node, items, k,
                      render_to_context(node.block, [c EXCEPT !.params = s.params]))

\* "for item in items" from the k-th item on.
ForNode_loop(node, items, k, c) ==
    IF k > Len(items) THEN c
    ELSE ForNode_item(node, items, k, c, Name_set(node.name, c.params, items[k]))

\* ForNode.render, the expression having evaluated to v.
ForNode_items(node, c, v) ==
    IF Raised(v) THEN Raise(c, v.exc)
    ELSE IF ~Iterable(v.value) THEN Raise(c, Exc("TypeError", NotIterable(v.value)))
    ELSE ForNode_loop(node, Iter(v.value), 1, c)

ForNode_render(node, c) == ForNode_items(node, c, Expression_eval(node.expression, c))

\* An include that renders nothing inside a template that is itself being
\* rendered through an include or an extends.
IncludeNode_template_once(c, t) ==
    IF Raised(t) THEN [c EXCEPT !.exc = t.exc, !.loader = t.loader]
    ELSE IF c.depth >= 1 THEN [c EXCEPT !.loader = t.loader]
    ELSE Context_block_exit(c, render_to_context(t.template[1],
                                                 [c EXCEPT !.loader = t.loader,
                                                           !.depth = @ + 1]))

\* IncludeNode.render, t being what get_template did.
IncludeNode_template(c, t) ==
    IF Raised(t) THEN [c EXCEPT !.exc = t.exc, !.loader = t.loader]
    ELSE IF c.depth >= RecursionLimit THEN [c EXCEPT !.exc = RecursionError, !.loader = t.loader]
    ELSE Context_block_exit(c, render_to_context(t.template[1],
                                                 [c EXCEPT !.loader = t.loader,
                                                           !.depth = @ + 1]))

IncludeNode_render(node, c) ==
    IncludeNode_template(c, get_template_of(c, Expression_eval(node.expression, c)))

\* context.params.get("__blocks__", {})
block_info_of(c) ==
    IF "__blocks__" \in DOMAIN c.params THEN c.params["__blocks__"].v ELSE <<>>

\* "stack = ....get(self.name, []); stack.append(self.block)"
block_stack(node, c) ==
    (IF node.name \in DOMAIN block_info_of(c) THEN block_info_of(c)[node.name] ELSE <<>>)
        \o <<node.block>>

\* The context after stack.append(self.block): the list appended to is one
\* of the "__blocks__" dict when the dict has the name, a new list otherwise.
block_stack_append(node, c) ==
    IF node.name \in DOMAIN block_info_of(c)
    THEN [c EXCEPT !.params = Put(@, "__blocks__",
                                  DictV(Put(block_info_of(c), node.name, block_stack(node, c))))]
    ELSE c

\* BlockNode.render
BlockNode_render(node, c) ==
    Context_block_exit(block_stack_append(node, c),
                       render_to_context(block_stack(node, c)[1], block_stack_append(node, c)))

\* "for block_node in self.block_nodes:
\*      block_info.setdefault(block_node.name, []).append(block_node.block)"
RECURSIVE block_info_extend(_, _, _)
block_info_extend(block_info, block_nodes, k) ==
    IF k > Len(block_nodes) THEN block_info
    ELSE block_info_extend(
             Put(block_info, block_nodes[k].name,
                 (IF block_nodes[k].name \in DOMAIN block_info
                  THEN block_info[block_nodes[k].name] ELSE <<>>) \o <<block_nodes[k].block>>),
             block_nodes, k + 1)

\* The loader whose cached templates of the name have the block information
\* among their default params.
blocks_kept(loader, template_name, block_info) ==
    IF template_name \notin DOMAIN loader.cache THEN loader
    ELSE [loader EXCEPT !.cache[template_name] =
             [k \in DOMAIN @ |->
                 [@[k] EXCEPT !._default_params = Put(@, "__blocks__", block_info)]]]

\* ExtendsNode.render keeping the block information in the parent template.
ExtendsNode_template_persist(node, c, t) ==
    IF Raised(t) THEN [c EXCEPT !.exc = t.exc, !.loader = t.loader]
    ELSE Context_block_exit(
             [c EXCEPT !.params = Put(@, "__blocks__", DictV(<<>>))],
             render_to_context(
                 t.template[1],
                 [c EXCEPT !.loader = blocks_kept(t.loader, t.template[1]._name,
                                                  DictV(block_info_extend(block_info_of(c),
                                                                          node.block_nodes, 1))),
                           !.params = Put(@, "__blocks__",
                                          DictV(block_info_extend(block_info_of(c),
                                                                  node.block_nodes, 1)))]))

\* ExtendsNode.render, t being what get_template did.
ExtendsNode_template(node, c, t) ==
    IF Raised(t) THEN [c EXCEPT !.exc = t.exc, !.loader = t.loader]
    ELSE IF c.depth >= RecursionLimit THEN [c EXCEPT !.exc = RecursionError, !.loader = t.loader]
    ELSE Context_block_exit(
             [c EXCEPT !.params = Put(@, "__blocks__", DictV(<<>>))],
             render_to_context(
                 t.template[1],
                 [c EXCEPT !.loader = t.loader,
                           !.depth = @ + 1,
                           !.params = Put(@, "__blocks__",
                                          DictV(block_info_extend(block_info_of(c),
                                                                  node.block_nodes, 1)))]))

ExtendsNode_render(node, c) ==
    ExtendsNode_template(node, c, get_template_of(c, Expression_eval(node.expression, c)))

\* The node of the caller-supplied macro writes the text of its tag.
CustomNode_render(node, c) == [c EXCEPT !.buffer = Append(@, node.value)]

(***************************************************************************)
(* The nodes of macros.py.  They keep the inheritance state in the meta    *)
(* dict of the context: "__blocks__" (the blocks of the extending          *)
(* template), "__child__" (the context of the extending template) and      *)
(* "__parent_blocks__" (the declarations below the one being rendered).    *)
(* A context another context refers to is kept as [params, meta].  The     *)
(* Context of base.py has neither meta nor sub_context; they follow the   *)
(* RenderContext of the specification: a sub-context has a copy of the     *)
(* params and of the meta, the meta updated with the one given, and        *)
(* shares the buffer.                                                      *)
(***************************************************************************)
\* The context c as the object the meta of another context refers to.
context_ref(c) == [params |-> c.params, meta |-> c.meta[1]]

\* ctx.sub_context(meta=meta), c being the context rendering goes on from.
sub_context(c, ctx, meta) ==
    [c EXCEPT !.params = ctx.params, !.meta = <<Update(ctx.meta, meta)>>]

\* Back in context c, s being the sub-context after rendering to it.
sub_context_exit(c, s) == [s EXCEPT !.params = c.params, !.meta = c.meta]

\* The names that start and end with "__", among the names of the model.
DunderNames == {"__autoescape__", "__loader__", "__super__"}

\* "for name, value in self._default_params.items()" of Template._render_to_context
default_params_into(default_params, params) ==
    [x \in (DOMAIN default_params) \cup (DOMAIN params) |->
        IF x \in DOMAIN default_params /\ (x \in DunderNames \/ x \notin DOMAIN params)
        THEN default_params[x] ELSE params[x]]

\* Template._render_to_context of base.py
Template_render_to_context(template, c) ==
    render_to_context(template,
                      [c EXCEPT !.params = default_params_into(template._default_params, @)])

\* template._render_to_sub_context(context, meta)
render_to_sub_context(template, c, meta) ==
    sub_context_exit(c, Template_render_to_context(template,
                                                   sub_context(c, context_ref(c), meta)))

\* "while "__child__" in child_context.meta" of BlockNode.render
RECURSIVE BlockNode_stack(_, _, _)
BlockNode_stack(node, child_context, stack) ==
    IF "__child__" \notin DOMAIN child_context.meta THEN stack
    ELSE IF node.name \in DOMAIN child_context.meta["__child__"].meta["__blocks__"]
    THEN BlockNode_stack(
             node, child_context.meta["__child__"],
             Append(stack,
                    [context |-> child_context.meta["__child__"],
                     block |-> child_context.meta["__child__"].meta["__blocks__"][node.name]]))
    ELSE BlockNode_stack(node, child_context.meta["__child__"], stack)

\* "block_context, block = block_stack.pop()
\*  sub_context = block_context.sub_context(meta={"__parent_blocks__": block_stack})
\*  block._render_to_context(sub_context)"
render_topmost(c, stack) ==
    sub_context_exit(
        c, render_to_context(stack[Len(stack)].block,
                             sub_context(c, stack[Len(stack)].context,
                                         [__parent_blocks__ |-> SubSeq(stack, 1, Len(stack) - 1)])))

\* BlockNode.render of macros.py
macros_BlockNode_render(node, c) ==
    render_topmost(c, BlockNode_stack(node, context_ref(c),
                                      <<[context |-> context_ref(c), block |-> node.block]>>))

\* SuperNode.render: block_stack.pop() raises IndexError on the empty list.
SuperNode_render(node, c) ==
    IF c.meta # <<>> /\ "__parent_blocks__" \in DOMAIN c.meta[1]
    THEN IF c.meta[1]["__parent_blocks__"] = <<>>
         THEN Raise(c, Exc("IndexError", "pop from empty list"))
         ELSE render_topmost(c, c.meta[1]["__parent_blocks__"])
    ELSE c

\* "blocks = {block_node.name: block_node.block for block_node in self.block_nodes}"
ExtendsNode_blocks(node) ==
    [name \in {node.block_nodes[k].name : k \in DOMAIN node.block_nodes} |->
        node.block_nodes[CHOOSE k \in DOMAIN node.block_nodes :
                            /\ node.block_nodes[k].name = name
                            /\ \A j \in DOMAIN node.block_nodes :
                                  node.block_nodes[j].name = name => j <= k].block]

\* get_template of macros.py, given a Template or a value that is neither a
\* Template nor a str: [exc, template]
macros_get_template(v) ==
    IF Raised(v) THEN [exc |-> v.exc, template |-> <<>>]
    ELSE IF v.value.t = "Template" THEN [exc |-> NoExc, template |-> <<v.value.v>>]
    ELSE [exc |-> Exc("TypeError", "Expected a Template or a str, found "
                          \o PyRepr(v.value) \o "."),
          template |-> <<>>]

\* ExtendsNode.render after 'context.meta["__blocks__"] = blocks', t being
\* what get_template did.
macros_ExtendsNode_template(c, t) ==
    IF Raised(t) THEN Raise(c, t.exc)
    ELSE render_to_sub_context(t.template[1], c, [__child__ |-> context_ref(c)])

\* ExtendsNode.render of macros.py
macros_ExtendsNode_render(node, c) ==
    macros_ExtendsNode_template(
        [c EXCEPT !.meta = <<Put(@[1], "__blocks__", ExtendsNode_blocks(node))>>],
        macros_get_template(Expression_eval(node.expression, c)))

\* node.render(context)
Node_render(node, c) ==
    CASE node.type = "StringNode" -> StringNode_render(node, c)
      [] node.type = "ExpressionNode" -> ExpressionNode_render(node, c)
      [] node.type = "IfNode" -> IfNode_render(node, c)
      [] node.type = "ForNode" -> ForNode_render(node, c)
      [] node.type = "IncludeNode" -> IncludeNode_render(node, c)
      [] node.type = "BlockNode" ->
            IF c.meta = <<>> THEN BlockNode_render(node, c)
            ELSE macros_BlockNode_render(node, c)
      [] node.type = "ExtendsNode" ->
            IF c.meta = <<>> THEN ExtendsNode_render(node, c)
            ELSE macros_ExtendsNode_render(node, c)
      [] node.type = "SuperNode" -> SuperNode_render(node, c)
      [] node.type = "CustomNode" -> CustomNode_render(node, c)

\* Template.render(**params): [exc, out, params, buffer, trace, loader], out
\* being the string returned, params and buffer those of the context at the end.
render_result(c) ==
    [exc |-> c.exc, out |-> IF Raised(c) THEN "" ELSE Context_read(c),
     params |-> c.params, buffer |-> c.buffer, trace |-> c.trace, loader |-> c.loader]

Template_render(template, params, loader) ==
    render_result(render_to_context(template,
                                    Context(Update(template._default_params, params),
                                            <<>>, loader)))

\* ".render(**params)" of what compile returned or raised
render_compiled(r, params) ==
    IF Raised(r)
    THEN [exc |-> r.exc, out |-> "", params |-> <<>>, buffer |-> <<>>, trace |-> <<>>,
          loader |-> [sources |-> <<>>, cache |-> <<>>]]
    ELSE Template_render(r.template[1], params, [sources |-> <<>>, cache |-> <<>>])

\* moody.render(template, **params): compile(template).render(**params)
moody_render(template, params) ==
    render_compiled(compile_text(template, "<string>", <<>>), params)

(***************************************************************************)
(* Inputs.                                                                 *)
(***************************************************************************)
SeqsUpTo(S, n) == UNION {[1..k -> S] : k \in 0..n}

NoParams == <<>>

Unused == <<>>

(***************************************************************************)
(* SpecCompile: default_parser.compile applied to every template of at     *)
(* most MaxLen segments over CompileAlphabet, with and without a macro     *)
(* supplied by the caller.                                                 *)
(***************************************************************************)
CompileAlphabet ==
    {MacroTag(<<"if", "x">>), MacroTag(<<"elif", "y">>), MacroTag(<<"else">>),
     MacroTag(<<"endif">>), MacroTag(<<"for", "n", "in", "xs">>), MacroTag(<<"endfor">>),
     MacroTag(<<"block", "a">>), MacroTag(<<"endblock">>), MacroTag(<<"foo">>)}

CompileInit ==
    /\ pc = "start"
    /\ source \in SeqsUpTo(CompileAlphabet, MaxLen)
    /\ extra_macros \in {<<>>, DEFAULT_LOADER_MACROS, <<"catch_all_macro">>}
    /\ sources = Unused
    /\ cache = Unused
    /\ kwargs = NoParams
    /\ defaults = NoParams
    /\ threads = Unused
    /\ call = Unused
    /\ compiled = Unused
    /\ rendered = Unused

Compile ==
    /\ pc = "start"
    /\ compiled' = compile(source, "<string>", defaults, extra_macros)
    /\ pc' = "compiled"
    /\ UNCHANGED <<source, extra_macros, sources, defaults, threads, call, cache, kwargs, rendered>>

CompileNext == Compile

SpecCompile == CompileInit /\ [][CompileNext]_vars

(***************************************************************************)
(* SpecRender: default_parser.compile and then Template.render, applied to *)
(* if constructs and to for loops.  An if template is a sequence of at     *)
(* most MaxIfLen pieces, each a tag of the if construct followed by the    *)
(* text of its body; a for template is a sequence of at most MaxForLen     *)
(* tags and line breaks.                                                   *)
(***************************************************************************)
MaxIfLen == 4

MaxForLen == 4

RECURSIVE Flatten(_)
Flatten(pieces) == IF pieces = <<>> THEN <<>> ELSE Head(pieces) \o Flatten(Tail(pieces))

\* The dicts with the one key name, holding a value of vals.
Param(name, vals) == {[k \in {name} |-> v] : v \in vals}

Absent == {<<>>}

IfPieces ==
    {<<MacroTag(<<"if", "x">>), Text("A")>>, <<MacroTag(<<"elif", "y">>), Text("B")>>,
     <<MacroTag(<<"elif", "1">>), Text("D")>>, <<MacroTag(<<"else">>), Text("C")>>,
     <<MacroTag(<<"endif">>)>>}

IfSources == {Flatten(pieces) : pieces \in SeqsUpTo(IfPieces, MaxIfLen)}

IfParams ==
    {Update(px, py) :
        px \in Absent \cup Param("x", {IntV(0), IntV(1)}),
        py \in Param("y", {IntV(0), StrV(""), ListV(<<>>), StrV("t0")})}

ForAlphabet ==
    {MacroTag(<<"for", "n", "in", "xs">>), MacroTag(<<"for", "n", ",", "m", "in", "xs">>),
     MacroTag(<<"endfor">>), ExprTag(<<"n">>), ExprTag(<<"m">>), NL}

ForSources == SeqsUpTo(ForAlphabet, MaxForLen)

ForParams ==
    {Update(pn, pxs) :
        pn \in Absent \cup Param("n", {IntV(7)}),
        pxs \in Param("xs", {ListV(<<>>), ListV(<<IntV(1), IntV(2)>>),
                             ListV(<<ListV(<<IntV(1), IntV(2)>>)>>),
                             ListV(<<ListV(<<IntV(1)>>)>>),
                             ListV(<<ListV(<<IntV(1), IntV(2), IntV(3)>>)>>),
                             ListV(<<ListV(<<IntV(1), IntV(2)>>), ListV(<<IntV(3), IntV(4)>>)>>)})}

NoLoader == [sources |-> <<>>, cache |-> <<>>]

RenderInit ==
    /\ pc = "start"
    /\ \/ source \in IfSources /\ kwargs \in IfParams
       \/ source \in ForSources /\ kwargs \in ForParams
    /\ extra_macros = <<>>
    /\ sources = NoLoader.sources
    /\ cache = NoLoader.cache
    /\ defaults = NoParams
    /\ threads = Unused
    /\ call = Unused
    /\ compiled = Unused
    /\ rendered = Unused

\* template.render(**kwargs) of the template compiled or loaded
Render ==
    /\ pc = "compiled"
    /\ ~Raised(compiled)
    /\ rendered' = Template_render(compiled.template[1], kwargs,
                                   [sources |-> sources, cache |-> cache])
    /\ cache' = rendered'.loader.cache
    /\ pc' = "rendered"
    /\ UNCHANGED <<source, extra_macros, sources, defaults, threads, call, kwargs, compiled>>

RenderNext == Compile \/ Render

SpecRender == RenderInit /\ [][RenderNext]_vars

Rendered == pc = "rendered"

(***************************************************************************)
(* SpecLoader: Loader.load and then Template.render, for a loader with one *)
(* MemorySource of ChainLen templates t0, t1, ...  Each template but t0    *)
(* starts by extending or by including the one before it; each has a      *)
(* block a (with a text, with a text and a nested block n, or with an      *)
(* expression on its second line that names nothing) and may have a        *)
(* block n after it.                                                       *)
(***************************************************************************)
ChainLen == 3

TemplateName(i) == "t" \o IntStr(i)

TemplateNames == {TemplateName(i) : i \in 0..(ChainLen - 1)}

BlockTag(name) == MacroTag(<<"block", name>>)
EndblockTag == MacroTag(<<"endblock">>)

Shapes == [header : {"extends", "include"}, a : {"plain", "nested", "err"},
           n : {"absent", "plain"}]

\* The source text of template i of the given shape.
ShapeSource(i, shape) ==
    (IF i = 0 THEN <<>>
     ELSE <<MacroTag(<<shape.header, "'" \o TemplateName(i - 1) \o "'">>)>>)
    \o (CASE shape.a = "plain" ->
                <<BlockTag("a"), Text(TemplateName(i) \o "a"), EndblockTag>>
          [] shape.a = "nested" ->
                <<BlockTag("a"), Text(TemplateName(i) \o "a"),
                  BlockTag("n"), Text(TemplateName(i) \o "an"), EndblockTag, EndblockTag>>
          [] shape.a = "err" ->
                <<BlockTag("a"), NL, ExprTag(<<"zz">>), EndblockTag>>)
    \o (IF shape.n = "plain"
        THEN <<BlockTag("n"), Text(TemplateName(i) \o "n"), EndblockTag>>
        ELSE <<>>)

\* The dicts a MemorySource is made of.
MemorySources ==
    {[name \in TemplateNames |->
         ShapeSource(CHOOSE i \in 0..(ChainLen - 1) : TemplateName(i) = name,
                     shapes[name])] :
        shapes \in [TemplateNames -> Shapes]}

LoaderInit ==
    /\ pc = "start"
    /\ source = Unused
    /\ extra_macros = DEFAULT_LOADER_MACROS
    /\ sources \in {<<templates>> : templates \in MemorySources}
    /\ cache = <<>>
    /\ kwargs = NoParams
    /\ defaults = NoParams
    /\ threads = Unused
    /\ call = Unused
    /\ compiled = Unused
    /\ rendered = Unused

\* What load returned or raised, in the shape of what compile returns.
loaded(r) == [exc |-> r.exc, template |-> r.template, tried |-> <<>>]

\* loader.load(template_name)
LoaderLoad ==
    /\ pc = "start"
    /\ \E template_name \in TemplateNames \cup {"nope"} :
          LET r == load([sources |-> sources, cache |-> cache], template_name) IN
          /\ compiled' = loaded(r)
          /\ cache' = r.loader.cache
    /\ pc' = "compiled"
    /\ UNCHANGED <<source, extra_macros, sources, defaults, threads, call, kwargs, rendered>>

LoaderNext == LoaderLoad \/ Render

SpecLoader == LoaderInit /\ [][LoaderNext]_vars

(***************************************************************************)
(* SpecSuper: moody.compile and then Template.render with the macros of    *)
(* macros.py, for a chain of at most ChainLen templates.  The root has a   *)
(* block a; each template after it extends the one before it, given as     *)
(* the parameter p0, p1, ..., and may declare block a again.  The body of  *)
(* a block is the name of its template, alone or with a super tag before   *)
(* or after it.                                                            *)
(***************************************************************************)
\* The macros of macros.py after if_macro and for_macro; no template of
\* the model has a set or a render tag.
MACROS_AFTER_FOR == <<"include_macro", "block_macro", "super_macro", "extends_macro">>

SuperTag == MacroTag(<<"super">>)

ParentName(i) == "p" \o IntStr(i)

\* The bodies block a may have in template i.
Bodies(i) ==
    {<<Text(TemplateName(i))>>, <<Text(TemplateName(i)), SuperTag>>,
     <<SuperTag, Text(TemplateName(i))>>}

\* The sources template i of a chain may have.
ChainSources(i) ==
    IF i = 0 THEN {<<BlockTag("a")>> \o body \o <<EndblockTag>> : body \in Bodies(0)}
    ELSE {<<MacroTag(<<"extends", ParentName(i - 1)>>)>> \o rest :
             rest \in {<<>>} \cup {<<BlockTag("a")>> \o body \o <<EndblockTag>> :
                                      body \in Bodies(i)}}

\* The chains of k templates, root first.
RECURSIVE ChainsOfLen(_)
ChainsOfLen(k) ==
    IF k = 0 THEN {<<>>}
    ELSE {Append(chain, s) : chain \in ChainsOfLen(k - 1), s \in ChainSources(k - 1)}

Chains == UNION {ChainsOfLen(k) : k \in 1..ChainLen}

\* The parameters the leaf of the chain is rendered with: every other
\* template of the chain, compiled.
ParentParams(chain) ==
    [name \in {ParentName(i) : i \in 0..(Len(chain) - 2)} |->
        TemplateV(compile(chain[1 + CHOOSE i \in 0..(Len(chain) - 2) : ParentName(i) = name],
                          name, NoParams, MACROS_AFTER_FOR).template[1])]

SuperInit ==
    /\ pc = "start"
    /\ sources \in Chains
    /\ source = sources[Len(sources)]
    /\ extra_macros = MACROS_AFTER_FOR
    /\ cache = Unused
    /\ kwargs = ParentParams(sources)
    /\ defaults = NoParams
    /\ threads = Unused
    /\ call = Unused
    /\ compiled = Unused
    /\ rendered = Unused

\* Template.render of base.py: the context starts with an empty meta.
macros_Template_render(template, params) ==
    render_result(Template_render_to_context(
                      template, [Context(params, <<>>, NoLoader) EXCEPT !.meta = <<<<>>>>]))

\* template.render(**kwargs) of the template compiled with the macros of macros.py
MacrosRender ==
    /\ pc = "compiled"
    /\ ~Raised(compiled)
    /\ rendered' = macros_Template_render(compiled.template[1], kwargs)
    /\ pc' = "rendered"
    /\ UNCHANGED <<source, extra_macros, sources, defaults, threads, call, cache, kwargs, compiled>>

SuperNext == Compile \/ MacrosRender

SpecSuper == SuperInit /\ [][SuperNext]_vars

(***************************************************************************)
(* SpecDefaults: a template compiled with default params is rendered with  *)
(* the caller's params, by Template.render of parser.py (Render) or by     *)
(* Template.render of base.py (MacrosRender).                              *)
(***************************************************************************)
DefaultsSources ==
    {<<Text("a")>>, <<ExprTag(<<"x">>)>>, <<ExprTag(<<"x">>), Text("-"), ExprTag(<<"y">>)>>}

DefaultParams ==
    {Update(Update(px, py), pa) :
        px \in Absent \cup Param("x", {StrV("<")}),
        py \in Absent \cup Param("y", {IntV(1)}),
        pa \in Absent \cup Param("__autoescape__", {NoneV, FuncV("escape")})}

CallerParams ==
    {Update(Update(px, py), pa) :
        px \in Absent \cup Param("x", {StrV(">")}),
        py \in Absent \cup Param("y", {IntV(0)}),
        pa \in Absent \cup Param("__autoescape__", {NoneV, FuncV("escape")})}

DefaultsInit ==
    /\ pc = "start"
    /\ source \in DefaultsSources
    /\ extra_macros = <<>>
    /\ sources = NoLoader.sources
    /\ cache = NoLoader.cache
    /\ defaults \in DefaultParams
    /\ kwargs \in CallerParams
    /\ threads = Unused
    /\ call = Unused
    /\ compiled = Unused
    /\ rendered = Unused

DefaultsNext == Compile \/ Render \/ MacrosRender

SpecDefaults == DefaultsInit /\ [][DefaultsNext]_vars

(***************************************************************************)
(* SpecBlocks: the compilation of a template that declares up to MaxBlocks *)
(* blocks one after another as the overrides of the template it extends.   *)
(***************************************************************************)
MaxBlocks == 3

\* The declarations of the blocks named, the k-th with the text k.
BlockDeclarations(names) ==
    Flatten([k \in 1..Len(names) |-> <<BlockTag(names[k]), Text(IntStr(k)), EndblockTag>>])

BlocksSources ==
    {header \o BlockDeclarations(names) :
        header \in {<<MacroTag(<<"extends", "'t0'">>)>>, <<MacroTag(<<"extends", "'t1'">>)>>},
        names \in SeqsUpTo(BlockNames, MaxBlocks)}

BlocksInit ==
    /\ pc = "start"
    /\ source \in BlocksSources
    /\ extra_macros = DEFAULT_LOADER_MACROS
    /\ sources = Unused
    /\ cache = Unused
    /\ defaults = NoParams
    /\ kwargs = NoParams
    /\ threads = Unused
    /\ call = Unused
    /\ compiled = Unused
    /\ rendered = Unused

BlocksNext == Compile

SpecBlocks == BlocksInit /\ [][BlocksNext]_vars

(***************************************************************************)
(* SpecTokenize: the tokens of a template text of up to MaxPieces pieces,  *)
(* a piece being a delimiter or a character.                               *)
(***************************************************************************)
MaxPieces == 4

TextPieces ==
    {<<"{", "{">>, <<"}", "}">>, <<"{", "%">>, <<"%", "}">>, <<"{", "#">>, <<"#", "}">>,
     <<" ">>, <<"x">>, <<"\n">>}

TextSources == {Flatten(pieces) : pieces \in SeqsUpTo(TextPieces, MaxPieces)}

TokenizeInit ==
    /\ pc = "start"
    /\ source \in TextSources
    /\ extra_macros = <<>>
    /\ sources = Unused
    /\ cache = Unused
    /\ defaults = NoParams
    /\ kwargs = NoParams
    /\ threads = Unused
    /\ call = Unused
    /\ compiled = Unused
    /\ rendered = Unused

\* list(tokenize(source))
Tokenize ==
    /\ pc = "start"
    /\ compiled' = [exc |-> NoExc, tokens |-> tokenize_text(source)]
    /\ pc' = "tokenized"
    /\ UNCHANGED <<source, extra_macros, sources, cache, defaults, kwargs, threads, call,
                   rendered>>

TokenizeNext == Tokenize

SpecTokenize == TokenizeInit /\ [][TokenizeNext]_vars

(***************************************************************************)
(* SpecText: moody.render of a text of up to MaxChars characters that has  *)
(* no opening delimiter.                                                   *)
(***************************************************************************)
MaxChars == 4

TextChars == {"{", "}", "%", "#", " ", "x", "\n"}

\* Whether the text has none of the delimiters "{{", "{%" and "{#".
Literal(text) ==
    \A p \in 1..Len(text) :
        ~(At(text, p, "{", "{") \/ At(text, p, "{", "%") \/ At(text, p, "{", "#"))

TextParams ==
    {Update(px, pa) :
        px \in Absent \cup Param("x", {StrV("<")}),
        pa \in Absent \cup Param("__autoescape__", {FuncV("escape")})}

TextInit ==
    /\ pc = "start"
    /\ source \in {text \in SeqsUpTo(TextChars, MaxChars) : Literal(text)}
    /\ extra_macros = <<>>
    /\ sources = Unused
    /\ cache = Unused
    /\ defaults = NoParams
    /\ kwargs \in TextParams
    /\ threads = Unused
    /\ call = Unused
    /\ compiled = Unused
    /\ rendered = Unused

\* moody.render(source, **kwargs)
MoodyRender ==
    /\ pc = "start"
    /\ rendered' = moody_render(source, kwargs)
    /\ pc' = "rendered"
    /\ UNCHANGED <<source, extra_macros, sources, cache, defaults, kwargs, threads, call,
                   compiled>>

TextNext == MoodyRender

SpecText == TextInit /\ [][TextNext]_vars

(***************************************************************************)
(* SpecExpr: the rendering of a template that has one expression, between  *)
(* texts or not, with or without an autoescape function among the params.  *)
(***************************************************************************)
ExprWords == {"x", "1", "'t0'"}

ExprSources ==
    {pre \o <<ExprTag(<<w>>)>> \o post :
        pre \in {<<>>, <<Text("a")>>}, post \in {<<>>, <<Text("b")>>}, w \in ExprWords}

ExprParams ==
    {Update(px, pa) :
        px \in Absent \cup Param("x", {StrV("<"), StrV("&"), IntV(0), ListV(<<IntV(1)>>)}),
        pa \in Absent \cup Param("__autoescape__", {NoneV, FuncV("escape"), FuncV("bar")})}

ExprInit ==
    /\ pc = "start"
    /\ source \in ExprSources
    /\ extra_macros = <<>>
    /\ sources = NoLoader.sources
    /\ cache = NoLoader.cache
    /\ defaults = NoParams
    /\ kwargs \in ExprParams
    /\ threads = Unused
    /\ call = Unused
    /\ compiled = Unused
    /\ rendered = Unused

ExprNext == Compile \/ Render

SpecExpr == ExprInit /\ [][ExprNext]_vars

(***************************************************************************)
(* SpecCalls: any sequence of load, render and clear_cache calls on one    *)
(* caching Loader with two MemorySources, each call with at most MaxNames  *)
(* template names.  t0 has a block, t1 extends t0 in the first source and  *)
(* includes t2 in the second, and t2 is an if tag that is never closed.    *)
(* A layout says which of the sources have each of the names.  call is     *)
(* the last call made: its name, its template names and the names the      *)
(* cache had before it.                                                    *)
(***************************************************************************)
MaxNames == 2

CallNames == {"t0", "t1", "t2"}

Layouts == [t0 : {"first", "second", "both"}, t1 : {"none", "first", "second", "both"},
            t2 : {"none", "second"}]

\* The source text of the named template in the k-th source.
LayoutSource(name, k) ==
    CASE name = "t0" -> <<BlockTag("a"), Text("t0" \o IntStr(k)), EndblockTag>>
      [] name = "t1" /\ k = 1 ->
            <<MacroTag(<<"extends", "'t0'">>), BlockTag("a"), Text("t11"), EndblockTag>>
      [] name = "t1" /\ k = 2 -> <<MacroTag(<<"include", "'t2'">>), Text("t12")>>
      [] name = "t2" -> <<MacroTag(<<"if", "x">>)>>

\* Whether the k-th source of the layout has the name.
HasData(layout, name, k) ==
    layout[name] = "both" \/ (k = 1 /\ layout[name] = "first")
        \/ (k = 2 /\ layout[name] = "second")

\* The two MemorySources of a layout.
LayoutSources(layout) ==
    [k \in 1..2 |-> [name \in {n \in CallNames : HasData(layout, n, k)} |->
                        LayoutSource(name, k)]]

CallsInit ==
    /\ pc = "start"
    /\ source = Unused
    /\ extra_macros = DEFAULT_LOADER_MACROS
    /\ sources \in {LayoutSources(layout) : layout \in Layouts}
    /\ cache = <<>>
    /\ defaults = NoParams
    /\ kwargs = NoParams
    /\ threads = Unused
    /\ call = Unused
    /\ compiled = Unused
    /\ rendered = Unused

\* What render raises when load raised.
render_failed(r) ==
    [exc |-> r.exc, out |-> "", params |-> <<>>, buffer |-> <<>>, trace |-> <<>>,
     loader |-> r.loader]

\* ".render(**params)" of what load returned
render_loaded(r, params) ==
    IF Raised(r) THEN render_failed(r) ELSE Template_render(r.template[1], params, r.loader)

\* DebugLoader.render(*template_names, **params)
Loader_render(loader, template_names, params) ==
    render_loaded(load_names(loader, template_names), params)

\* loader.load(*template_names)
CallLoad ==
    /\ \E template_names \in SeqsUpTo(CallNames, MaxNames) :
          LET r == load_names([sources |-> sources, cache |-> cache], template_names) IN
          /\ compiled' = loaded(r)
          /\ cache' = r.loader.cache
          /\ call' = [op |-> "load", template_names |-> template_names,
                      before |-> DOMAIN cache]
    /\ pc' = "loaded"
    /\ rendered' = Unused
    /\ UNCHANGED <<source, extra_macros, sources, defaults, kwargs, threads>>

\* loader.render(template_name, **kwargs)
CallRender ==
    /\ \E template_name \in CallNames :
          LET r == Loader_render([sources |-> sources, cache |-> cache],
                                 <<template_name>>, kwargs) IN
          /\ rendered' = r
          /\ cache' = r.loader.cache
          /\ call' = [op |-> "render", template_names |-> <<template_name>>,
                      before |-> DOMAIN cache]
    /\ pc' = "rendered"
    /\ compiled' = Unused
    /\ UNCHANGED <<source, extra_macros, sources, defaults, kwargs, threads>>

\* loader.clear_cache()
CallClear ==
    /\ cache' = clear_cache([sources |-> sources, cache |-> cache]).cache
    /\ call' = [op |-> "clear_cache", template_names |-> <<>>, before |-> DOMAIN cache]
    /\ pc' = "cleared"
    /\ compiled' = Unused
    /\ rendered' = Unused
    /\ UNCHANGED <<source, extra_macros, sources, defaults, kwargs, threads>>

CallsNext == CallLoad \/ CallRender \/ CallClear

SpecCalls == CallsInit /\ [][CallsNext]_vars

(***************************************************************************)
(* SpecInclude: render calls on a loader whose template t1 includes t0     *)
(* between two texts; t2 extends t1 and t3 is the template t0 extends when *)
(* it extends one.                                                         *)
(***************************************************************************)
IncludeNames == {"t0", "t1", "t2", "t3"}

IncludeTag == MacroTag(<<"include", "'t0'">>)

\* The templates included.
Included ==
    {<<Text("I")>>,
     <<ExprTag(<<"x">>)>>,
     <<MacroTag(<<"for", "n", "in", "xs">>), ExprTag(<<"n">>), MacroTag(<<"endfor">>)>>,
     <<ExprTag(<<"zz">>)>>,
     <<MacroTag(<<"extends", "'t3'">>), BlockTag("b"), Text("Cb"), EndblockTag>>}

\* What follows the include tag in the including template.
AfterInclude ==
    {<<Text("B"), BlockTag("b"), Text("Tb"), EndblockTag>>, <<Text("B"), ExprTag(<<"n">>)>>}

IncludeSources ==
    {[t0 |-> included,
      t1 |-> <<Text("A"), IncludeTag>> \o after,
      t2 |-> <<MacroTag(<<"extends", "'t1'">>)>>,
      t3 |-> <<BlockTag("a"), Text("P"), EndblockTag>>] :
        included \in Included, after \in AfterInclude}

IncludeParams ==
    {Update(Update(px, pn), pxs) :
        px \in Absent \cup Param("x", {IntV(5)}),
        pn \in Absent \cup Param("n", {IntV(7)}),
        pxs \in Param("xs", {ListV(<<IntV(1), IntV(2)>>)})}

IncludeInit ==
    /\ pc = "start"
    /\ source = Unused
    /\ extra_macros = DEFAULT_LOADER_MACROS
    /\ sources \in {<<templates>> : templates \in IncludeSources}
    /\ cache = <<>>
    /\ defaults = NoParams
    /\ kwargs \in IncludeParams
    /\ threads = Unused
    /\ call = Unused
    /\ compiled = Unused
    /\ rendered = Unused

\* loader.render(template_name, **kwargs)
IncludeRender ==
    /\ \E template_name \in IncludeNames :
          LET r == Loader_render([sources |-> sources, cache |-> cache],
                                 <<template_name>>, kwargs) IN
          /\ rendered' = r
          /\ cache' = r.loader.cache
          /\ call' = [op |-> "render", template_names |-> <<template_name>>,
                      before |-> DOMAIN cache]
    /\ pc' = "rendered"
    /\ UNCHANGED <<source, extra_macros, sources, defaults, kwargs, threads, compiled>>

IncludeNext == IncludeRender

SpecInclude == IncludeInit /\ [][IncludeNext]_vars

(***************************************************************************)
(* SpecAuto: render calls on a loader whose templates, named with and      *)
(* without an extension, write the parameter x.                            *)
(***************************************************************************)
AutoNames == {"t0.html", "t1.txt", "t2", "t4.HTML"}

\* The names of a call: one name of a template, or a name that no source
\* has and then one of a template.
AutoCalls == {<<name>> : name \in AutoNames} \cup {<<"nope.html", name>> : name \in AutoNames}

AutoSources ==
    {[name \in names |-> <<Text("a"), ExprTag(<<"x">>)>>] : names \in SUBSET AutoNames}

AutoParams == Param("x", {StrV("<"), StrV("&"), IntV(1)})

AutoInit ==
    /\ pc = "start"
    /\ source = Unused
    /\ extra_macros = DEFAULT_LOADER_MACROS
    /\ sources \in {<<templates>> : templates \in AutoSources}
    /\ cache = <<>>
    /\ defaults = NoParams
    /\ kwargs \in AutoParams
    /\ threads = Unused
    /\ call = Unused
    /\ compiled = Unused
    /\ rendered = Unused

\* loader.render(*template_names, **kwargs)
AutoRender ==
    /\ \E template_names \in AutoCalls :
          LET r == Loader_render([sources |-> sources, cache |-> cache],
                                 template_names, kwargs) IN
          /\ rendered' = r
          /\ cache' = r.loader.cache
          /\ call' = [op |-> "render", template_names |-> template_names,
                      before |-> DOMAIN cache]
    /\ pc' = "rendered"
    /\ UNCHANGED <<source, extra_macros, sources, defaults, kwargs, threads, compiled>>

AutoNext == AutoRender

SpecAuto == AutoInit /\ [][AutoNext]_vars

(***************************************************************************)
(* SpecBuffer: render calls on a loader whose templates nest if and for    *)
(* bodies, a block, an include and an extends: t1 has a loop, a block and  *)
(* an include of t0, t2 extends t1 and t3 has a loop inside an if.         *)
(***************************************************************************)
\* The body of the loop of t1.
LoopBodies ==
    {<<ExprTag(<<"n">>)>>,
     <<MacroTag(<<"if", "x">>), Text("B"), MacroTag(<<"endif">>), ExprTag(<<"n">>)>>}

BufferSources ==
    {[t0 |-> <<Text("I"), ExprTag(<<"x">>)>>,
      t1 |-> <<Text("A"), MacroTag(<<"for", "n", "in", "xs">>)>> \o body
             \o <<MacroTag(<<"endfor">>), BlockTag("a"), Text("C"), EndblockTag,
                  IncludeTag, Text("D")>>,
      t2 |-> <<MacroTag(<<"extends", "'t1'">>), BlockTag("a"), Text("E"), EndblockTag>>,
      t3 |-> <<MacroTag(<<"if", "x">>), MacroTag(<<"for", "n", "in", "xs">>), Text("F"),
               MacroTag(<<"endfor">>), MacroTag(<<"else">>), Text("G"),
               MacroTag(<<"endif">>)>>] :
        body \in LoopBodies}

BufferParams ==
    {Update(px, pxs) :
        px \in Param("x", {IntV(0), IntV(1)}),
        pxs \in Param("xs", {ListV(<<>>), ListV(<<IntV(1)>>), ListV(<<IntV(1), IntV(2)>>)})}

BufferInit ==
    /\ pc = "start"
    /\ source = Unused
    /\ extra_macros = DEFAULT_LOADER_MACROS
    /\ sources \in {<<templates>> : templates \in BufferSources}
    /\ cache = <<>>
    /\ defaults = NoParams
    /\ kwargs \in BufferParams
    /\ threads = Unused
    /\ call = Unused
    /\ compiled = Unused
    /\ rendered = Unused

BufferNext == IncludeRender

SpecBuffer == BufferInit /\ [][BufferNext]_vars

(***************************************************************************)
(* SpecExtends: render calls on a loader whose template t1 extends t0,     *)
(* which declares the blocks a and b; what follows the extends tag of t1   *)
(* is made of block declarations, text, an expression and a block inside   *)
(* an if.                                                                  *)
(***************************************************************************)
MaxRest == 2

ExtendsNames == {"t0", "t1"}

RestPieces ==
    {<<BlockTag("a"), Text("ca"), EndblockTag>>,
     <<BlockTag("b"), Text("cb"), EndblockTag>>,
     <<Text("junk")>>,
     <<ExprTag(<<"x">>)>>,
     <<MacroTag(<<"if", "x">>), BlockTag("a"), Text("ca"), EndblockTag,
       MacroTag(<<"endif">>)>>}

ExtendsSources ==
    {[t0 |-> <<Text("P"), BlockTag("a"), Text("pa"), EndblockTag,
               BlockTag("b"), Text("pb"), EndblockTag, Text("Q")>>,
      t1 |-> <<MacroTag(<<"extends", "'t0'">>)>> \o Flatten(rest)] :
        rest \in SeqsUpTo(RestPieces, MaxRest)}

ExtendsInit ==
    /\ pc = "start"
    /\ source = Unused
    /\ extra_macros = DEFAULT_LOADER_MACROS
    /\ sources \in {<<templates>> : templates \in ExtendsSources}
    /\ cache = <<>>
    /\ defaults = NoParams
    /\ kwargs \in Param("x", {IntV(0), IntV(1)})
    /\ threads = Unused
    /\ call = Unused
    /\ compiled = Unused
    /\ rendered = Unused

\* loader.render(template_name, **kwargs)
ExtendsRender ==
    /\ \E template_name \in ExtendsNames :
          LET r == Loader_render([sources |-> sources, cache |-> cache],
                                 <<template_name>>, kwargs) IN
          /\ rendered' = r
          /\ cache' = r.loader.cache
          /\ call' = [op |-> "render", template_names |-> <<template_name>>,
                      before |-> DOMAIN cache]
    /\ pc' = "rendered"
    /\ UNCHANGED <<source, extra_macros, sources, defaults, kwargs, threads, compiled>>

ExtendsNext == ExtendsRender

SpecExtends == ExtendsInit /\ [][ExtendsNext]_vars

(***************************************************************************)
(* SpecCycle: render calls on a loader whose template t0 includes or       *)
(* extends t0 or t1, and whose template t1 includes or extends t0, t1 or   *)
(* t2, or nothing; t2 is a text.                                           *)
(***************************************************************************)
CycleNames == {"t0", "t1", "t2"}

\* The tags that render another template.
Links(targets) ==
    {<<MacroTag(<<macro, "'" \o target \o "'">>)>> :
        macro \in {"include", "extends"}, target \in targets}

CycleSources ==
    {[t0 |-> before \o link0 \o <<Text("B")>>,
      t1 |-> <<Text("C")>> \o link1,
      t2 |-> <<Text("D")>>] :
        before \in {<<>>, <<Text("A")>>},
        link0 \in Links({"t0", "t1"}),
        link1 \in Links(CycleNames) \cup {<<>>}}

CycleInit ==
    /\ pc = "start"
    /\ source = Unused
    /\ extra_macros = DEFAULT_LOADER_MACROS
    /\ sources \in {<<templates>> : templates \in CycleSources}
    /\ cache = <<>>
    /\ defaults = NoParams
    /\ kwargs = NoParams
    /\ threads = Unused
    /\ call = Unused
    /\ compiled = Unused
    /\ rendered = Unused

\* loader.render(template_name)
CycleRender ==
    /\ \E template_name \in CycleNames :
          LET r == Loader_render([sources |-> sources, cache |-> cache],
                                 <<template_name>>, kwargs) IN
          /\ rendered' = r
          /\ cache' = r.loader.cache
          /\ call' = [op |-> "render", template_names |-> <<template_name>>,
                      before |-> DOMAIN cache]
    /\ pc' = "rendered"
    /\ UNCHANGED <<source, extra_macros, sources, defaults, kwargs, threads, compiled>>

CycleNext == CycleRender

SpecCycle == CycleInit /\ [][CycleNext]_vars

(***************************************************************************)
(* SpecParse: ParserRun(template, name, macros).parse_all_nodes() of       *)
(* default_parser.compile on every template of at most MaxTokens segments  *)
(* over ParseAlphabet; compiled keeps the tokens, the nodes returned, the  *)
(* position of the token iterator at the end and the log of the macros     *)
(* invoked.                                                                *)
(***************************************************************************)
MaxTokens == 5

ParseAlphabet ==
    {Text("s"), MacroTag(<<"if", "x">>), MacroTag(<<"elif", "y">>), MacroTag(<<"else">>),
     MacroTag(<<"endif">>), MacroTag(<<"for", "n", "in", "xs">>), MacroTag(<<"endfor">>)}

ParseInit ==
    /\ pc = "start"
    /\ source \in SeqsUpTo(ParseAlphabet, MaxTokens)
    /\ extra_macros = <<>>
    /\ sources = Unused
    /\ cache = Unused
    /\ kwargs = NoParams
    /\ defaults = NoParams
    /\ threads = Unused
    /\ call = Unused
    /\ compiled = Unused
    /\ rendered = Unused

\* What parse_all_nodes did on the run.
parsed(run, r) ==
    [exc |-> r.exc, nodes |-> r.value, pos |-> r.pos, tried |-> r.tried,
     tokens |-> run.tokens]

Parse ==
    /\ pc = "start"
    /\ compiled' = parsed(ParserRun(source, "<string>", DEFAULT_MACROS),
                          parse_all_nodes(ParserRun(source, "<string>", DEFAULT_MACROS),
                                          1, <<>>))
    /\ pc' = "parsed"
    /\ UNCHANGED <<source, extra_macros, sources, defaults, threads, call, cache, kwargs, rendered>>

ParseNext == Parse

SpecParse == ParseInit /\ [][ParseNext]_vars

(***************************************************************************)
(* SpecStale: load and clear_cache calls on a caching loader over one      *)
(* MemorySource whose dict of templates is written by its owner between    *)
(* the calls.  call.first keeps, for each name, what the first load of the *)
(* name since the last clear_cache returned or raised.                     *)
(***************************************************************************)
StaleNames == {"t0", "t1"}

StaleTexts == {<<Text("A")>>, <<Text("B")>>}

\* The dicts of templates a MemorySource is made from.
StaleDicts ==
    UNION {[names -> StaleTexts] : names \in SUBSET StaleNames}

NoneLoaded == [name \in StaleNames |-> <<>>]

StaleInit ==
    /\ pc = "start"
    /\ source = Unused
    /\ extra_macros = DEFAULT_LOADER_MACROS
    /\ sources \in {<<templates>> : templates \in StaleDicts}
    /\ cache = <<>>
    /\ defaults = NoParams
    /\ kwargs = NoParams
    /\ threads = Unused
    /\ call = [op |-> "none", template_names |-> <<>>, before |-> {}, first |-> NoneLoaded]
    /\ compiled = Unused
    /\ rendered = Unused

\* loader.load(template_name)
StaleLoad ==
    /\ \E template_name \in StaleNames :
          LET r == load([sources |-> sources, cache |-> cache], template_name) IN
          /\ compiled' = loaded(r)
          /\ cache' = r.loader.cache
          /\ call' = [op |-> "load", template_names |-> <<template_name>>,
                      before |-> DOMAIN cache,
                      first |-> IF call.first[template_name] = <<>>
                                THEN [call.first EXCEPT ![template_name] = <<loaded(r)>>]
                                ELSE call.first]
    /\ pc' = "loaded"
    /\ UNCHANGED <<source, extra_macros, sources, defaults, kwargs, threads, rendered>>

\* templates[template_name] = text, by the owner of the dict the
\* MemorySource was made from: the source gains or changes the data.
StaleWrite ==
    /\ \E template_name \in StaleNames, text \in StaleTexts :
          /\ template_name \in DOMAIN sources[1] => sources[1][template_name] # text
          /\ sources' = <<Put(sources[1], template_name, text)>>
          /\ call' = [call EXCEPT !.op = "write", !.template_names = <<template_name>>,
                                  !.before = DOMAIN cache]
    /\ pc' = "written"
    /\ compiled' = Unused
    /\ UNCHANGED <<source, extra_macros, cache, defaults, kwargs, threads, rendered>>

\* loader.clear_cache()
StaleClear ==
    /\ cache' = clear_cache([sources |-> sources, cache |-> cache]).cache
    /\ call' = [op |-> "clear_cache", template_names |-> <<>>, before |-> DOMAIN cache,
                first |-> NoneLoaded]
    /\ pc' = "cleared"
    /\ compiled' = Unused
    /\ UNCHANGED <<source, extra_macros, sources, defaults, kwargs, threads, rendered>>

StaleNext == StaleLoad \/ StaleWrite \/ StaleClear

SpecStale == StaleInit /\ [][StaleNext]_vars

(***************************************************************************)
(* SpecRace: the threads A and B call load(template_name) on one caching   *)
(* Loader, at most MaxLoads calls in all.  Loader._load_all takes three    *)
(* steps, between which the other thread may run: the test of the cache    *)
(* (returning the cached list on a hit), DebugLoader._load_all, and the    *)
(* store into the cache.  A list of templates is an object: it is kept    *)
(* with the identity id it got when it was made, the thread that made it   *)
(* and the number of the call.  threads[t] is the position of thread t:   *)
(* its pc, the name it is loading, the list it has made, the list its     *)
(* last call returned and the number of calls it has started.             *)
(***************************************************************************)
MaxLoads == 3

Threads == {"A", "B"}

RaceNames == {"t0", "t1"}

Idle == [pc |-> "idle", template_name |-> "", made |-> <<>>, returned |-> <<>>, n |-> 0]

RaceInit ==
    /\ pc = "start"
    /\ source = Unused
    /\ extra_macros = DEFAULT_LOADER_MACROS
    /\ sources \in {LayoutSources(layout) : layout \in Layouts}
    /\ cache = <<>>
    /\ defaults = NoParams
    /\ kwargs = NoParams
    /\ threads = [t \in Threads |-> Idle]
    /\ call = Unused
    /\ compiled = Unused
    /\ rendered = Unused

\* The calls started so far.
RECURSIVE LoadsStarted(_)
LoadsStarted(ts) ==
    IF ts = {} THEN 0
    ELSE LET t == CHOOSE x \in ts : TRUE IN threads[t].n + LoadsStarted(ts \ {t})

\* "if template_name in self._cache: return self._cache[template_name]"
RaceTest(t) ==
    /\ threads[t].pc = "idle"
    /\ LoadsStarted(Threads) < MaxLoads
    /\ \E template_name \in RaceNames :
          threads' = [threads EXCEPT ![t] =
              IF template_name \in DOMAIN cache
              THEN [pc |-> "idle", template_name |-> template_name, made |-> <<>>,
                    returned |-> <<cache[template_name]>>, n |-> @.n + 1]
              ELSE [pc |-> "miss", template_name |-> template_name, made |-> <<>>,
                    returned |-> <<>>, n |-> @.n + 1]]
    /\ pc' = "running"
    /\ UNCHANGED <<source, extra_macros, sources, cache, defaults, kwargs, call, compiled,
                   rendered>>

\* The list object DebugLoader._load_all returned to thread t, or its exception.
made_by(t, r) ==
    [exc |-> r.exc, templates |-> r.templates, id |-> [thread |-> t, n |-> threads[t].n]]

\* "template = super(Loader, self)._load_all(template_name)"
RaceCompile(t) ==
    /\ threads[t].pc = "miss"
    /\ threads' = [threads EXCEPT ![t] =
          [@ EXCEPT !.pc = "made",
                    !.made = <<made_by(t, DebugLoader_load_all(
                                              [sources |-> sources, cache |-> <<>>],
                                              threads[t].template_name, 1, <<>>))>>]]
    /\ UNCHANGED <<pc, source, extra_macros, sources, cache, defaults, kwargs, call, compiled,
                   rendered>>

\* "self._cache[template_name] = template; return template", or the
\* exception of _load_all going up.
RaceStore(t) ==
    /\ threads[t].pc = "made"
    /\ cache' = IF Raised(threads[t].made[1]) THEN cache
                ELSE Put(cache, threads[t].template_name, threads[t].made[1])
    /\ threads' = [threads EXCEPT ![t] =
          [@ EXCEPT !.pc = "idle", !.made = <<>>, !.returned = threads[t].made]]
    /\ UNCHANGED <<pc, source, extra_macros, sources, defaults, kwargs, call, compiled,
                   rendered>>

RaceNext == \E t \in Threads : RaceTest(t) \/ RaceCompile(t) \/ RaceStore(t)

SpecRace == RaceInit /\ [][RaceNext]_vars

(***************************************************************************)
(* SpecShared: the threads A and B each call Template.render once on the   *)
(* one template a Loader has loaded as "t1".  Template.render is taken in  *)
(* steps between which the other thread may run: the making of the context *)
(* from the default params, the rendering of one node of the template, and *)
(* the return of context.read().  The template and the loader's cache are  *)
(* shared; threads[t].c is the context of the call of thread t,            *)
(* threads[t].k the node it renders next and threads[t].among the threads  *)
(* that were rendering when its call began.                                *)
(***************************************************************************)
SharedTemplates ==
    {[t1 |-> <<ExprTag(<<"x">>), Text("-"), ExprTag(<<"y">>)>>],
     [t1 |-> <<MacroTag(<<"for", "n", "in", "xs">>), ExprTag(<<"n">>), MacroTag(<<"endfor">>),
               ExprTag(<<"x">>)>>],
     [t1 |-> <<BlockTag("a"), ExprTag(<<"x">>), EndblockTag,
               BlockTag("a"), ExprTag(<<"y">>), EndblockTag>>],
     [t0 |-> <<BlockTag("a"), Text("t0"), EndblockTag, ExprTag(<<"y">>)>>,
      t1 |-> <<MacroTag(<<"extends", "'t0'">>), BlockTag("a"), ExprTag(<<"x">>), EndblockTag>>],
     [t0 |-> <<BlockTag("a"), Text("t0"), EndblockTag, ExprTag(<<"y">>)>>,
      t1 |-> <<MacroTag(<<"include", "'t0'">>), ExprTag(<<"x">>)>>]}

SharedParams ==
    {Update(Update(px, py), pxs) :
        px \in Absent \cup Param("x", {IntV(0), IntV(1)}),
        py \in Absent \cup Param("y", {IntV(2)}),
        pxs \in Param("xs", {ListV(<<IntV(3), IntV(4)>>)})}

NotCalled ==
    [pc |-> "idle", params |-> <<>>, k |-> 0, c |-> <<>>, result |-> <<>>, among |-> {}]

SharedInit ==
    /\ pc = "start"
    /\ source = Unused
    /\ extra_macros = DEFAULT_LOADER_MACROS
    /\ sources \in {<<templates>> : templates \in SharedTemplates}
    /\ cache = <<>>
    /\ defaults = NoParams
    /\ kwargs = NoParams
    /\ threads = [t \in Threads |-> NotCalled]
    /\ call = Unused
    /\ compiled = Unused
    /\ rendered = Unused

\* template = loader.load("t1")
SharedLoad ==
    /\ pc = "start"
    /\ LET r == load([sources |-> sources, cache |-> cache], "t1") IN
          /\ compiled' = loaded(r)
          /\ cache' = r.loader.cache
    /\ pc' = "compiled"
    /\ UNCHANGED <<source, extra_macros, sources, defaults, kwargs, threads, call, rendered>>

\* The default params of the template after a render that updates them
\* with the caller's params in place.
default_params_updated(template, params) == Update(template._default_params, params)

\* The default params of the template after "context_params =
\* self._default_params.copy(); context_params.update(params)": the copy is
\* what is updated.
default_params_after(template, params) == template._default_params

\* "context_params = self._default_params.copy(); context_params.update(params);
\*  context = Context(context_params, [])"
SharedRenderCall(t) ==
    /\ pc = "compiled"
    /\ ~Raised(compiled)
    /\ threads[t].pc = "idle"
    /\ \E params \in SharedParams :
          /\ threads' = [threads EXCEPT ![t] =
                [pc |-> "rendering", params |-> params, k |-> 1,
                 c |-> Context(Update(compiled.template[1]._default_params, params), <<>>,
                               NoLoader),
                 result |-> <<>>,
                 among |-> {u \in Threads : threads[u].pc = "rendering"}]]
          /\ compiled' = [compiled EXCEPT !.template[1]._default_params =
                             default_params_after(compiled.template[1], params)]
    /\ UNCHANGED <<pc, source, extra_macros, sources, cache, defaults, kwargs, call, rendered>>

\* The context of thread t, its loader being the shared one as it is now.
SharedContext(t) == [threads[t].c EXCEPT !.loader = [sources |-> sources, cache |-> cache]]

\* The thread after its k-th node was rendered, c being the context then.
SharedRendered(thread, c) ==
    IF Raised(c) THEN [thread EXCEPT !.pc = "done", !.c = c, !.result = <<render_result(c)>>]
    ELSE [thread EXCEPT !.k = @ + 1, !.c = c]

\* One turn of "for node in self._nodes" in _render_to_context
SharedRenderNode(t) ==
    /\ threads[t].pc = "rendering"
    /\ threads[t].k <= Len(compiled.template[1]._nodes)
    /\ LET c == fragment_except(compiled.template[1],
                                compiled.template[1]._nodes[threads[t].k],
                                Node_render(compiled.template[1]._nodes[threads[t].k],
                                            SharedContext(t))) IN
          /\ threads' = [threads EXCEPT ![t] = SharedRendered(@, c)]
          /\ cache' = c.loader.cache
    /\ UNCHANGED <<pc, source, extra_macros, sources, defaults, kwargs, call, compiled,
                   rendered>>

\* "return context.read()"
SharedRenderReturn(t) ==
    /\ threads[t].pc = "rendering"
    /\ threads[t].k > Len(compiled.template[1]._nodes)
    /\ threads' = [threads EXCEPT ![t] =
          [@ EXCEPT !.pc = "done", !.result = <<render_result(threads[t].c)>>]]
    /\ UNCHANGED <<pc, source, extra_macros, sources, cache, defaults, kwargs, call, compiled,
                   rendered>>

SharedNext ==
    \/ SharedLoad
    \/ \E t \in Threads : SharedRenderCall(t) \/ SharedRenderNode(t) \/ SharedRenderReturn(t)

SpecShared == SharedInit /\ [][SharedNext]_vars

(***************************************************************************)
(* The structure of a template, read off its tags by one left-to-right     *)
(* pass with a stack of the open constructs.  It is the reference the      *)
(* parser's verdict is compared with; it covers templates whose names and  *)
(* expressions are well formed.                                            *)
(***************************************************************************)
FirstMatch(macros, lex) ==
    LET hits == {k \in 1..Len(macros) : macro_match(macros[k], lex).ok} IN
    IF hits = {} THEN 0 ELSE CHOOSE k \in hits : \A j \in hits : k <= j

Verdict(v, tag, open) == [v |-> v, tag |-> tag, open |-> open]

Frame(tag, name, seen_else) == [tag |-> tag, name |-> name, seen_else |-> seen_else]

EndTagOf(tag) ==
    CASE tag = "if" -> "endif" [] tag = "for" -> "endfor" [] tag = "block" -> "endblock"

RECURSIVE Scan(_, _, _, _)
Scan(toks, i, stack, macros) ==
    IF i > Len(toks)
    THEN LET open == SelectSeq(stack, LAMBDA f : f.tag # "extends") IN
         IF open = <<>> THEN Verdict("ok", <<>>, "")
         ELSE Verdict("unterminated", <<>>, open[Len(open)].tag)
    ELSE IF toks[i].type # "MACRO" THEN Scan(toks, i + 1, stack, macros)
    ELSE LET lex == toks[i].lexemes
             k == FirstMatch(macros, lex)
             top == stack[Len(stack)]
             pop == SubSeq(stack, 1, Len(stack) - 1)
         IN  IF k # 0
             THEN CASE macros[k] = "if_macro" ->
                        Scan(toks, i + 1, Append(stack, Frame("if", "", FALSE)), macros)
                    [] macros[k] = "for_macro" ->
                        Scan(toks, i + 1, Append(stack, Frame("for", "", FALSE)), macros)
                    [] macros[k] = "block_macro" ->
                        Scan(toks, i + 1, Append(stack, Frame("block", lex[2], FALSE)), macros)
                    [] macros[k] = "extends_macro" ->
                        Scan(toks, i + 1, Append(stack, Frame("extends", "", FALSE)), macros)
                    [] OTHER -> Scan(toks, i + 1, stack, macros)
             ELSE IF stack = <<>> THEN Verdict("unrecognized", lex, "")
             ELSE CASE top.tag = "if" /\ lex[1] = "elif" /\ Len(lex) >= 2 ->
                        IF top.seen_else THEN Verdict("elif after else", lex, "if")
                        ELSE Scan(toks, i + 1, stack, macros)
                    [] top.tag = "if" /\ lex = <<"else">> ->
                        IF top.seen_else THEN Verdict("second else", lex, "if")
                        ELSE Scan(toks, i + 1, Append(pop, Frame("if", "", TRUE)), macros)
                    [] top.tag = "if" /\ lex = <<"endif">> -> Scan(toks, i + 1, pop, macros)
                    [] top.tag = "for" /\ lex = <<"endfor">> -> Scan(toks, i + 1, pop, macros)
                    [] top.tag = "block" /\ (lex = <<"endblock">> \/ lex = <<"endblock", top.name>>) ->
                        Scan(toks, i + 1, pop, macros)
                    [] OTHER -> Verdict("unrecognized", lex, top.tag)

\* The structure of the template being compiled under the registered macros.
Structure == Scan(tokenize(source), 1, <<>>, DEFAULT_MACROS \o extra_macros)

Compiled == pc = "compiled"

CompileFailed == compiled.exc.cls = "TemplateCompileError"

(***************************************************************************)
(* Claims about compile (SpecCompile).                                     *)
(***************************************************************************)
IfTag == MacroTag(<<"if", "x">>)
ElifTag == MacroTag(<<"elif", "y">>)
ElseTag == MacroTag(<<"else">>)
EndifTag == MacroTag(<<"endif">>)

Count(seq, e) == Cardinality({i \in 1..Len(seq) : seq[i] = e})

\* A single if construct: if, then elif and else tags only, then endif.
FlatIf ==
    /\ Len(source) >= 2
    /\ source[1] = IfTag
    /\ source[Len(source)] = EndifTag
    /\ \A i \in 2..(Len(source) - 1) : source[i] \in {ElifTag, ElseTag}

\* C7: compiling an if construct in which an elif follows an else, or which
\* has a second else, fails with a TemplateCompileError; an if construct that
\* compiles has its elif clauses first and then at most one else.
C7_IfClauseOrder ==
    Compiled =>
        /\ Structure.v \in {"elif after else", "second else"} => CompileFailed
        /\ FlatIf /\ ~Raised(compiled) =>
             LET node == compiled.template[1]._nodes[1] IN
             /\ node.type = "IfNode"
             /\ Len(node.clauses) = 1 + Count(source, ElifTag)
             /\ Count(source, ElseTag) <= 1
             /\ (node.else_block # <<>>) <=> (Count(source, ElseTag) = 1)
             /\ \A i, j \in 1..Len(source) :
                    source[i] = ElseTag /\ source[j] = ElifTag => j < i

C7_Witness ==
    /\ Compiled
    /\ Structure.v = "elif after else"
    /\ CompileFailed
    /\ compiled.exc.msg = "{{% elif %}} tag cannot come after {{% else %}}."

\* C8: when the input ends while an if, for or block tag still waits for its
\* terminator, compile fails with a TemplateCompileError whose message names
\* the opening tag and the closing tag it expected.
C8_UnterminatedNamesTags ==
    Compiled /\ Structure.v = "unterminated" =>
        /\ CompileFailed
        /\ compiled.exc.msg = "{% " \o Structure.open \o " %} tag could not find a corresponding {% "
                                 \o EndTagOf(Structure.open) \o " %}."

\* C9: a tag that no registered macro matches and that is not the terminator
\* the innermost open block waits for makes compile fail with the
\* "is not a recognized tag" TemplateCompileError, at top level and inside a block.
C9_UnrecognizedTag ==
    Compiled /\ Structure.v = "unrecognized" =>
        /\ CompileFailed
        /\ compiled.exc.msg = NotRecognized(Structure.tag)

C9_Witness ==
    /\ Compiled
    /\ Structure.v = "unrecognized"
    /\ Structure.open = "if"
    /\ Structure.tag = <<"endfor">>
    /\ compiled.exc.msg = "{% endfor %} is not a recognized tag."

RegisteredMacros == DEFAULT_MACROS \o extra_macros

\* The macros invoked for the tag at token index p, in the order invoked.
MacrosTriedFor(p) ==
    LET t == SelectSeq(compiled.tried, LAMBDA e : e[1] = p) IN
    [i \in 1..Len(t) |-> t[i][2]]

\* The registered macros up to and including the first whose grammar matches.
UpToFirstMatch(lex) ==
    LET k == FirstMatch(RegisteredMacros, lex) IN
    IF k = 0 THEN RegisteredMacros ELSE SubSeq(RegisteredMacros, 1, k)

NodeTypeOf(macro) ==
    CASE macro = "if_macro" -> "IfNode"
      [] macro = "for_macro" -> "ForNode"
      [] macro = "include_macro" -> "IncludeNode"
      [] macro = "block_macro" -> "BlockNode"
      [] macro = "extends_macro" -> "ExtendsNode"
      [] macro = "super_macro" -> "SuperNode"
      [] macro = "catch_all_macro" -> "CustomNode"

\* C10: for every tag the macros are tried in registration order, the
\* parser's own before the caller's extra ones, none is invoked after the
\* first whose grammar matches, and that one produces the node.
C10_FirstMatchWins ==
    Compiled =>
        /\ \A p \in 1..Len(tokenize(source)) :
              MacrosTriedFor(p) # <<>> =>
                  /\ tokenize(source)[p].type = "MACRO"
                  /\ MacrosTriedFor(p) = UpToFirstMatch(tokenize(source)[p].lexemes)
        /\ source # <<>> => MacrosTriedFor(1) # <<>>
        /\ source # <<>> /\ ~Raised(compiled) =>
              compiled.template[1]._nodes[1].type
                  = NodeTypeOf(RegisteredMacros[FirstMatch(RegisteredMacros, source[1].lex)])

C10_Witness ==
    /\ Compiled
    /\ extra_macros = <<"catch_all_macro">>
    /\ Len(source) = 2
    /\ source[1] = MacroTag(<<"for", "n", "in", "xs">>)
    /\ source[2] = MacroTag(<<"foo">>)
    /\ MacrosTriedFor(1) = <<"if_macro", "for_macro">>
    /\ MacrosTriedFor(2) = <<"if_macro", "for_macro", "catch_all_macro">>

(***************************************************************************)
(* Claims about if constructs and for loops (SpecRender).                  *)
(***************************************************************************)
RenderFailed == rendered.exc.cls = "TemplateRenderError"

TagAt(i) == source[i].kind = "tag"

\* The template is one if construct: an if tag, elif tags, at most one else
\* tag after them, an endif tag, and the text of a body after every tag but
\* the last.
OneIf ==
    /\ Len(source) >= 3
    /\ source[1] = IfTag
    /\ source[Len(source)] = EndifTag
    /\ \A i \in 2..(Len(source) - 1) :
          TagAt(i) => source[i].lex[1] \in {"elif", "else"}
    /\ \A i, j \in 1..Len(source) :
          TagAt(i) /\ TagAt(j) /\ source[i].lex[1] = "else" /\ i <= j
              => j = i \/ j = Len(source)

\* The indexes of the if tag and the elif tags, and of the else tag.
ClauseTags == {i \in 1..Len(source) : TagAt(i) /\ source[i].lex[1] \in {"if", "elif"}}

ElseTags == {i \in 1..Len(source) : TagAt(i) /\ source[i].lex[1] = "else"}

\* Whether the expression of the clause at tag i can be evaluated, and what
\* it evaluates to, in the scope of the caller's parameters.
Defined(i) == source[i].lex[2] \in LiteralWords \cup DOMAIN kwargs

ValueOf(i) ==
    IF source[i].lex[2] \in LiteralWords THEN LiteralValue(source[i].lex[2])
    ELSE kwargs[source[i].lex[2]]

\* The clauses at which evaluation in order stops: the first that is truthy
\* or cannot be evaluated.
Decisive == {i \in ClauseTags : ~Defined(i) \/ Truthy(ValueOf(i))}

FirstDecisive == CHOOSE i \in Decisive : \A j \in Decisive : i <= j

\* C4: rendering an if construct evaluates the clauses in order and renders
\* exactly the body of the first truthy clause; with no truthy clause it
\* renders the else body if there is one and nothing otherwise.
C4_FirstTruthyClause ==
    Rendered /\ OneIf =>
        IF Decisive # {}
        THEN IF Defined(FirstDecisive)
             THEN ~Raised(rendered) /\ rendered.out = source[FirstDecisive + 1].text
             ELSE RenderFailed
        ELSE /\ ~Raised(rendered)
             /\ rendered.out = IF ElseTags # {}
                               THEN source[(CHOOSE i \in ElseTags : TRUE) + 1].text
                               ELSE ""

C4_Witness ==
    /\ Rendered
    /\ source = Flatten(<<<<IfTag, Text("A")>>, <<ElifTag, Text("B")>>,
                          <<MacroTag(<<"elif", "1">>), Text("D")>>, <<EndifTag>>>>)
    /\ kwargs = [x |-> IntV(0), y |-> StrV("t0")]
    /\ rendered.out = "B"

ForTag == MacroTag(<<"for", "n", "in", "xs">>)
ForPairTag == MacroTag(<<"for", "n", ",", "m", "in", "xs">>)
EndforTag == MacroTag(<<"endfor">>)

ForTags == {i \in 1..Len(source) : source[i] \in {ForTag, ForPairTag}}

\* C1: when a render with a for loop has finished, every name of the loop's
\* binding target is unbound in the enclosing scope if it was unbound before,
\* and holds its value of before the loop otherwise.
C1_LoopLeavesScope ==
    Rendered /\ ~Raised(rendered) /\ ForTags # {} =>
        \A name \in {"n", "m"} :
            IF name \in DOMAIN kwargs
            THEN name \in DOMAIN rendered.params /\ rendered.params[name] = kwargs[name]
            ELSE name \notin DOMAIN rendered.params

\* The items the for loop of the template goes over.
Items == kwargs["xs"].v

\* An item the two names of the target can be bound to.
Pair(item) == item.t = "list" /\ Len(item.v) = 2

BadItems == {k \in 1..Len(Items) : ~Pair(Items[k])}

FirstBadItem == Items[CHOOSE k \in BadItems : \A j \in BadItems : k <= j]

RECURSIVE PairsOut(_)
PairsOut(items) ==
    IF items = <<>> THEN ""
    ELSE PyStr(Head(items).v[1]) \o PyStr(Head(items).v[2]) \o PairsOut(Tail(items))

\* C6: a for loop binding two names fails with a render error at the first
\* item that does not yield exactly two values, with fewer and with more
\* alike; items of exactly two values bind the first name to the first value
\* and the second to the second.
C6_DestructuringArity ==
    Rendered /\ ForTags = {1} /\ source[1] = ForPairTag =>
        IF BadItems # {}
        THEN /\ RenderFailed
             /\ rendered.exc.msg =
                    IF FirstBadItem.t # "list" THEN NotIterable(FirstBadItem)
                    ELSE IF Len(FirstBadItem.v) < 2 THEN "Not enough values to unpack."
                    ELSE "Need more that 2 values to unpack."
        ELSE /\ ~Raised(rendered) /\ Items # <<>> =>
                    /\ rendered.params["n"] = Items[Len(Items)].v[1]
                    /\ rendered.params["m"] = Items[Len(Items)].v[2]
             /\ source = <<ForPairTag, ExprTag(<<"n">>), ExprTag(<<"m">>), EndforTag>> =>
                    ~Raised(rendered) /\ rendered.out = PairsOut(Items)

C6_Witness ==
    /\ Rendered
    /\ source = <<ForPairTag, ExprTag(<<"n">>), ExprTag(<<"m">>), EndforTag>>
    /\ Items = <<ListV(<<IntV(1), IntV(2), IntV(3)>>)>>
    /\ RenderFailed
    /\ rendered.exc.msg = "Need more that 2 values to unpack."
    /\ rendered.out = ""

(***************************************************************************)
(* Claims about blocks, inheritance and render errors (SpecLoader).        *)
(***************************************************************************)
\* The shape of template i, read back from its source text.
ShapeOf(i) == CHOOSE shape \in Shapes : ShapeSource(i, shape) = sources[1][TemplateName(i)]

\* The template loaded and rendered is template Target.
Target == CHOOSE i \in 0..(ChainLen - 1) : TemplateName(i) = compiled.template[1]._name

\* Template k extends k - 1, which extends k - 2, and so on down to 0.
ExtendsChain(k) == \A i \in 1..k : ShapeOf(i).header = "extends"

\* No template of the chain raises, and none has two blocks of one name.
PlainChain(k) ==
    \A i \in 0..k :
        /\ ShapeOf(i).a # "err"
        /\ ~(ShapeOf(i).a = "nested" /\ ShapeOf(i).n = "plain")

\* Template i declares a block of the given name among the blocks it passes
\* to the template it extends.
Declares(i, name) == IF name = "a" THEN TRUE ELSE ShapeOf(i).n = "plain"

\* The template whose body a block of template j renders in the chain from
\* k: the most derived of those past j that declare it, j itself if none does.
Winner(name, j, k) ==
    LET over == {i \in (j + 1)..k : Declares(i, name)} IN
    IF over = {} THEN j ELSE CHOOSE i \in over : \A h \in over : h <= i

\* What the block n nested in block a of template i writes.
NestedOut(i, k) ==
    IF Winner("n", i, k) = i THEN TemplateName(i) \o "an"
    ELSE TemplateName(Winner("n", i, k)) \o "n"

\* What the body of block a of template i writes.
BlockAOut(i, k) ==
    TemplateName(i) \o "a" \o (IF ShapeOf(i).a = "nested" THEN NestedOut(i, k) ELSE "")

\* What rendering template k writes, each block of the root template 0
\* rendering the body of the most derived template declaring it.
ChainOut(k) ==
    BlockAOut(Winner("a", 0, k), k)
        \o (IF ShapeOf(0).n = "plain" THEN TemplateName(Winner("n", 0, k)) \o "n" ELSE "")

\* C2: in a chain of extends of any depth every block, a block nested in an
\* overriding body included, renders the body of the most derived template
\* that declares it, and its own body when no template further down the
\* chain declares it.
C2_MostDerivedBlock ==
    Rendered /\ ExtendsChain(Target) /\ PlainChain(Target) =>
        ~Raised(rendered) /\ rendered.out = ChainOut(Target)

\* C5: a render that fails raises a TemplateRenderError made once, by the
\* innermost fragment around the failing node, with that fragment's template
\* name, the node's line and the message of the exception the node raised;
\* every fragment further out lets it pass as it is.
C5_WrappedOnce ==
    Rendered /\ Raised(rendered) =>
        /\ RenderFailed
        /\ rendered.exc.msg = "name 'zz' is not defined"
        /\ rendered.exc.template_lineno = 2
        /\ \E i \in 0..(ChainLen - 1) :
              ShapeOf(i).a = "err" /\ rendered.exc.template_name = TemplateName(i)
        /\ rendered.trace # <<>>
        /\ rendered.trace[1] = [name |-> rendered.exc.template_name,
                                lineno |-> rendered.exc.template_lineno, wrapped |-> TRUE]
        /\ \A k \in 2..Len(rendered.trace) : ~rendered.trace[k].wrapped

C5_Witness ==
    /\ Rendered
    /\ RenderFailed
    /\ Target = 2
    /\ ShapeOf(2).header = "extends"
    /\ ShapeOf(1).header = "include"
    /\ ShapeOf(2).a = "err"
    /\ rendered.exc.template_name = "t2"
    /\ rendered.exc.template_lineno = 2
    /\ [i \in 1..Len(rendered.trace) |-> rendered.trace[i].name]
           = <<"t2", "t0", "t1", "t2">>

(***************************************************************************)
(* Claims on SpecSuper.                                                    *)
(***************************************************************************)
\* The templates of the chain that declare block a, root first.
Declaring == SelectSeq([i \in 1..Len(sources) |-> i],
                       LAMBDA i : \E k \in DOMAIN sources[i] : sources[i][k] = BlockTag("a"))

\* The body of block a in template i of the chain.
BodyOf(i) ==
    SelectSeq(sources[i], LAMBDA seg : seg = SuperTag \/ seg = Text(TemplateName(i - 1)))

\* What the d-th declaration of block a writes: its text, with the output
\* of the declaration below it in the place of the super tag, and nothing
\* there when it is the root-most.
RECURSIVE SuperOut(_)
SuperOut(d) ==
    JoinWith([k \in DOMAIN BodyOf(Declaring[d]) |->
                 IF BodyOf(Declaring[d])[k] = SuperTag
                 THEN IF d > 1 THEN SuperOut(d - 1) ELSE ""
                 ELSE TemplateName(Declaring[d] - 1)], "")

\* C3: a super tag renders the body of the next-less-derived declaration
\* of the block in the chain, and in the root-most declaration it writes
\* nothing and raises no error: every render of a chain succeeds and
\* returns the output of the most-derived declaration.
C3_SuperRendersParent ==
    Rendered => ~Raised(rendered) /\ rendered.out = SuperOut(Len(Declaring))

(***************************************************************************)
(* Claims on SpecCalls.                                                    *)
(***************************************************************************)
\* The sources, in registration order, that have data for the name.
SourcesWith(name) == {k \in 1..Len(sources) : name \in DOMAIN sources[k]}

\* The position of the first of the names some source has data for, 0 if
\* there is none.
FirstFound(template_names) ==
    IF \E i \in DOMAIN template_names : SourcesWith(template_names[i]) # {}
    THEN CHOOSE i \in DOMAIN template_names :
            /\ SourcesWith(template_names[i]) # {}
            /\ \A j \in 1..(i - 1) : SourcesWith(template_names[j]) = {}
    ELSE 0

FoundName == call.template_names[FirstFound(call.template_names)]

\* The nodes the k-th source's text of the name compiles to, if it compiles.
NodesOf(name, k) ==
    compile(sources[k][name], name, NoParams, DEFAULT_LOADER_MACROS).template[1]._nodes

\* Whether the text some source has for the name fails to compile.
BadSource(name) ==
    \E k \in SourcesWith(name) :
        Raised(compile(sources[k][name], name, NoParams, DEFAULT_LOADER_MACROS))

FirstSource(name) == CHOOSE k \in SourcesWith(name) : \A j \in SourcesWith(name) : k <= j

LastSource(name) == CHOOSE k \in SourcesWith(name) : \A j \in SourcesWith(name) : j <= k

Loaded == pc = "loaded"

\* C11 as stated: load returns a template for the first of the names some
\* source has data for, compiled from the first source that has data for
\* it, and does not use the names after it.
C11_FirstSourceWins ==
    Loaded /\ FirstFound(call.template_names) > 0 /\ ~BadSource(FoundName) =>
        /\ ~Raised(compiled)
        /\ compiled.template[1]._name = FoundName
        /\ compiled.template[1]._nodes = NodesOf(FoundName, FirstSource(FoundName))
        /\ DOMAIN cache = call.before
              \cup {call.template_names[j] : j \in 1..FirstFound(call.template_names)}

\* C11: load returns a template for the first of the names some source
\* has data for; every source that has data for that name is compiled and
\* the template returned is the one of the last of them in registration
\* order; load raises the compile error if one of them does not compile;
\* the names after that name are not looked up.
C11_LastSourceWins ==
    Loaded /\ FirstFound(call.template_names) > 0 =>
        IF FoundName \notin call.before /\ BadSource(FoundName)
        THEN /\ Raised(compiled)
             /\ compiled.exc.cls = "TemplateCompileError"
             /\ DOMAIN cache = call.before
                   \cup {call.template_names[j] :
                            j \in 1..(FirstFound(call.template_names) - 1)}
        ELSE /\ ~Raised(compiled)
             /\ compiled.template[1]._name = FoundName
             /\ compiled.template[1]._nodes = NodesOf(FoundName, LastSource(FoundName))
             /\ DOMAIN cache = call.before
                   \cup {call.template_names[j] : j \in 1..FirstFound(call.template_names)}

C11_Witness ==
    /\ Loaded
    /\ Len(call.template_names) = 2
    /\ FirstFound(call.template_names) = 2
    /\ Cardinality(SourcesWith(FoundName)) = 2
    /\ ~Raised(compiled)
    /\ compiled.template[1]._nodes # NodesOf(FoundName, FirstSource(FoundName))

\* The names in the order given, each in quotes, separated by ", ".
RECURSIVE Listing(_)
Listing(strs) ==
    IF Len(strs) = 1 THEN strs[1] ELSE strs[1] \o ", " \o Listing(Tail(strs))

\* C12: when no source has data for any of the names given, load raises
\* TemplateDoesNotExist, and the message lists every name given and every
\* source of the loader.
C12_DoesNotExist ==
    Loaded /\ call.template_names # <<>> /\ FirstFound(call.template_names) = 0 =>
        /\ Raised(compiled)
        /\ compiled.template = <<>>
        /\ compiled.exc.cls = "TemplateDoesNotExist"
        /\ compiled.exc.cls \notin {"TemplateCompileError", "TemplateRenderError"}
        /\ compiled.exc.msg =
              "Could not find a template named "
                 \o Listing([i \in DOMAIN call.template_names |->
                                "'" \o call.template_names[i] \o "'"])
                 \o " in any of "
                 \o Listing([k \in DOMAIN sources |-> "<memory>"]) \o "."

C12_Witness ==
    /\ Loaded
    /\ Len(call.template_names) = 2
    /\ call.template_names[1] # call.template_names[2]
    /\ FirstFound(call.template_names) = 0
    /\ compiled.exc.cls = "TemplateDoesNotExist"

\* C13: a load of one name that the cache already has leaves the cache as
\* it is; a load of one name adds at most one entry, and a second load of
\* the same name right after it adds none; after clear_cache the cache is
\* empty.
C13_CacheSize ==
    /\ [](pc # "start" /\ call.op = "load" /\ Len(call.template_names) = 1 =>
             /\ Cardinality(DOMAIN cache) <= Cardinality(call.before) + 1
             /\ (call.template_names[1] \in call.before => DOMAIN cache = call.before))
    /\ [](pc # "start" /\ call.op = "clear_cache" => DOMAIN cache = {})
    /\ [][pc # "start" /\ call.op = "load" /\ call'.op = "load"
             /\ Len(call.template_names) = 1
             /\ call'.template_names = call.template_names
          => /\ cache' = cache
             /\ Cardinality(DOMAIN cache') <= Cardinality(call.before) + 1]_vars

C13_Witness ==
    /\ Loaded
    /\ call.template_names = <<"t0">>
    /\ call.before = {"t0", "t1"}
    /\ DOMAIN cache = {"t0", "t1"}

CallRendered == pc = "rendered"

\* What the last render call returns or raises on a loader of the same
\* sources that has loaded nothing yet.
FreshRender ==
    Loader_render([sources |-> sources, cache |-> <<>>], call.template_names, kwargs)

\* C16: what a render call returns or raises depends only on its template
\* name and parameters, not on the calls made on the loader before it: it
\* is what the same call returns on a loader that has loaded nothing.
C16_NoPersistence ==
    CallRendered =>
        /\ rendered.exc = FreshRender.exc
        /\ rendered.out = FreshRender.out

C16_Witness ==
    /\ CallRendered
    /\ call.template_names = <<"t0">>
    /\ {"t0", "t1"} \subseteq call.before
    /\ SourcesWith("t1") = {1}
    /\ ~Raised(rendered)
    /\ rendered.out \in {"t01", "t02"}

\* The messages of the compile errors of the texts of the sources.
CompileFailures ==
    {TemplateError_str(compile(sources[k][name], name, NoParams, DEFAULT_LOADER_MACROS).exc) :
        name \in {n \in CallNames : BadSource(n)}, k \in {2}}

\* C20: once the template to render is loaded, rendering it compiles no
\* template (the cache gets no compiled template but the template's own) and
\* reports no failure to compile one, also for templates reached through
\* include or extends.
C20_NoCompileInRender ==
    CallRendered /\ SourcesWith(call.template_names[1]) # {}
            /\ (call.template_names[1] \in call.before \/ ~BadSource(call.template_names[1])) =>
        /\ {n \in (DOMAIN cache) \ call.before : cache[n] # <<>>} \subseteq {call.template_names[1]}
        /\ (Raised(rendered) => rendered.exc.msg \notin CompileFailures)

(***************************************************************************)
(* Claims on SpecRace.                                                     *)
(***************************************************************************)
\* C14: the first writer wins.  Once the cache has a list for a name, no
\* later store replaces it, so every call that starts afterwards returns
\* that list.
C14_FirstWriterWins ==
    [][\A template_name \in DOMAIN cache :
          /\ template_name \in DOMAIN cache'
          /\ cache'[template_name].id = cache[template_name].id]_vars

(***************************************************************************)
(* Claims on SpecShared.                                                   *)
(***************************************************************************)
\* What render(**params) of the template returns or raises when it is the
\* only call made on a loader that has loaded nothing else.
Alone(params) == Loader_render([sources |-> sources, cache |-> <<>>], <<"t1">>, params)

Done(t) == threads[t].pc = "done"

\* C15: however the render calls of the two threads on the one compiled
\* template are interleaved, each call returns the string, or raises the
\* exception, of the same call made alone, and the template stays as it
\* was compiled.
C15_RendersAlone ==
    /\ \A t \in Threads :
          Done(t) => /\ threads[t].result[1].exc = Alone(threads[t].params).exc
                     /\ threads[t].result[1].out = Alone(threads[t].params).out
    /\ pc = "compiled" => compiled.template = load([sources |-> sources, cache |-> <<>>],
                                                   "t1").template

\* Both calls have returned, with different strings, the call of B having
\* begun while A was rendering.
C15_Witness ==
    /\ Done("A") /\ Done("B")
    /\ ~Raised(threads["A"].result[1]) /\ ~Raised(threads["B"].result[1])
    /\ threads["B"].among = {"A"}
    /\ threads["A"].result[1].out # threads["B"].result[1].out

(***************************************************************************)
(* Claims on SpecDefaults.                                                 *)
(***************************************************************************)
\* C17: the nodes of the template see the caller's value for every key the
\* caller supplies, the keys that start and end with "__" included, and the
\* default for the other keys that have one.
C17_CallerOverrides ==
    Rendered =>
        /\ \A name \in DOMAIN kwargs :
              name \in DOMAIN rendered.params /\ rendered.params[name] = kwargs[name]
        /\ \A name \in (DOMAIN defaults) \ (DOMAIN kwargs) :
              name \in DOMAIN rendered.params /\ rendered.params[name] = defaults[name]

(***************************************************************************)
(* Claims on SpecBlocks.                                                   *)
(***************************************************************************)
\* The names of the blocks the template declares, in order.
DeclaredNames ==
    LET tags == SelectSeq(source, LAMBDA tok : tok.kind = "tag" /\ tok.lex[1] = "block")
    IN  [k \in 1..Len(tags) |-> tags[k].lex[2]]

DuplicateNames ==
    \E i, j \in 1..Len(DeclaredNames) : i # j /\ DeclaredNames[i] = DeclaredNames[j]

\* C18: a template that declares two blocks of the same name does not
\* compile: its compilation raises a TemplateCompileError.
C18_DuplicateBlocksRejected == (Compiled /\ DuplicateNames) => CompileFailed

(***************************************************************************)
(* Claims on SpecInclude.                                                  *)
(***************************************************************************)
\* What the included template renders to with the params of the including
\* one, rendered by itself.
IncludedAlone == Loader_render([sources |-> sources, cache |-> <<>>], <<"t0">>, kwargs)

\* What follows the include tag in t1.
After == SubSeq(sources[1]["t1"], 3, Len(sources[1]["t1"]))

\* What the nodes after the include write in the scope the including
\* template had before the include.
AfterOut ==
    IF After[2] = ExprTag(<<"n">>) THEN "B" \o PyStr(kwargs["n"]) ELSE "BTb"

\* C19: t1, rendered by itself or as the parent of t2, writes its text, then
\* what the included t0 writes with the variables of t1, then what its own
\* nodes write in the scope as it was before the include: a failure of the
\* included template fails the render, and a name bound only by the
\* included template is not defined afterwards.
C19_IncludeChildScope ==
    (CallRendered /\ call.template_names[1] \in {"t1", "t2"}) =>
        IF Raised(IncludedAlone) THEN Raised(rendered)
        ELSE IF After[2] = ExprTag(<<"n">>) /\ "n" \notin DOMAIN kwargs
        THEN Raised(rendered) /\ rendered.exc.msg = "name 'n' is not defined"
        ELSE /\ ~Raised(rendered)
             /\ rendered.out = "A" \o IncludedAlone.out \o AfterOut

(***************************************************************************)
(* Claims on SpecTokenize.                                                 *)
(***************************************************************************)
Tokenized == pc = "tokenized"

\* The classification of a line from p on: for a pair of delimiters closed
\* on the line an item of its type with the content stripped (none for a
\* comment), for any other character a literal item.
RECURSIVE Classified(_, _, _)
ClassifiedPair(line, lineno, p, q, type) ==
    IF q = 0 THEN <<[lineno |-> lineno, type |-> "STRING", contents |-> line[p]]>>
                  \o Classified(line, lineno, p + 1)
    ELSE (IF type = "COMMENT" THEN <<>>
          ELSE <<[lineno |-> lineno, type |-> type,
                  contents |-> Str(RStrip(LStrip(SubSeq(line, p + 2, q - 1))))]>>)
         \o Classified(line, lineno, q + 2)

Classified(line, lineno, p) ==
    IF p > Len(line) THEN <<>>
    ELSE IF At(line, p, "{", "{")
    THEN ClassifiedPair(line, lineno, p, FindClose(line, p + 2, "}", "}"), "EXPRESSION")
    ELSE IF At(line, p, "{", "%")
    THEN ClassifiedPair(line, lineno, p, FindClose(line, p + 2, "%", "}"), "MACRO")
    ELSE IF At(line, p, "{", "#")
    THEN ClassifiedPair(line, lineno, p, FindClose(line, p + 2, "#", "}"), "COMMENT")
    ELSE ClassifiedPair(line, lineno, p, 0, "STRING")

RECURSIVE ClassifiedLines(_, _)
ClassifiedLines(lines, lineno) ==
    IF lineno > Len(lines) THEN <<>>
    ELSE Classified(lines[lineno], lineno, 1) \o ClassifiedLines(lines, lineno + 1)

IsLiteral(tok) == tok.type = "STRING"
IsTag(tok) == tok.type # "STRING"

\* The expression and tag tokens of a sequence of tokens, in order.
TagsOf(toks) ==
    [k \in 1..Len(SelectSeq(toks, IsTag)) |->
        [lineno |-> SelectSeq(toks, IsTag)[k].lineno, type |-> SelectSeq(toks, IsTag)[k].type,
         contents |-> SelectSeq(toks, IsTag)[k].contents]]

\* The literal text of a sequence of tokens.
LiteralOf(toks) ==
    JoinWith([k \in 1..Len(SelectSeq(toks, IsLiteral)) |->
                 SelectSeq(toks, IsLiteral)[k].contents], "")

\* C21: the expression and tag tokens are those of the delimiter pairs
\* closed on their line, in source order and with the stripped content, and
\* the literal tokens hold every other character and no character of a
\* closed pair or comment.
C21_TokenClasses ==
    Tokenized =>
        /\ TagsOf(compiled.tokens) = TagsOf(ClassifiedLines(splitlines(source, <<>>), 1))
        /\ LiteralOf(compiled.tokens)
              = LiteralOf(ClassifiedLines(splitlines(source, <<>>), 1))

(***************************************************************************)
(* Claims on SpecText.                                                     *)
(***************************************************************************)
\* C22: a text without an opening delimiter renders to itself, line endings
\* included, whatever the parameters.
C22_LiteralRoundTrip == Rendered => (~Raised(rendered) /\ rendered.out = Str(source))

\* A text of two lines, with a closing brace and parameters, was rendered.
C22_Witness ==
    /\ Rendered
    /\ Len(source) = MaxChars
    /\ source[2] = "\n"
    /\ source[MaxChars] = "\n"
    /\ \E p \in 1..Len(source) : source[p] = "}"
    /\ kwargs # <<>>
    /\ rendered.out = Str(source)

(***************************************************************************)
(* Claims on SpecExpr.                                                     *)
(***************************************************************************)
\* The index of the expression in the source, and its word.
ExprAt == CHOOSE i \in 1..Len(source) : source[i].kind = "expr"
ExprWord == source[ExprAt].lex[1]

ExprDefined == ExprWord \in LiteralWords \cup DOMAIN kwargs

\* str() of the value of the expression
ExprStr == PyStr(IF ExprWord \in LiteralWords THEN LiteralValue(ExprWord) ELSE kwargs[ExprWord])

HasAutoescape == "__autoescape__" \in DOMAIN kwargs /\ kwargs["__autoescape__"].t = "function"

\* The chunk the expression is to append.
ExprChunk ==
    IF ~HasAutoescape THEN ExprStr
    ELSE IF kwargs["__autoescape__"].v = "escape" THEN escape(ExprStr) ELSE "bar"

\* The chunks of the texts before and after the expression; the tokenizer
\* ends the line with a text, empty when the expression is last.
ChunksBefore == [i \in 1..(ExprAt - 1) |-> source[i].text]
ChunksAfter == IF ExprAt = Len(source) THEN <<"">> ELSE <<source[Len(source)].text>>

\* C23: the expression appends one chunk, the str() of its value, passed
\* through the autoescape function when the params have one and unchanged
\* when they have none; when the expression fails nothing is appended.
C23_ExpressionChunk ==
    Rendered =>
        IF ExprDefined
        THEN ~Raised(rendered) /\ rendered.buffer = ChunksBefore \o <<ExprChunk>> \o ChunksAfter
        ELSE Raised(rendered) /\ rendered.buffer = ChunksBefore

\* An expression whose value needs escaping was rendered with escape, after
\* a text.
C23_Witness ==
    /\ Rendered
    /\ ExprAt = 2
    /\ ExprWord = "x"
    /\ HasAutoescape
    /\ kwargs["__autoescape__"].v = "escape"
    /\ rendered.buffer = <<"a", "&lt;", "">>

(***************************************************************************)
(* Claims on SpecAuto.                                                     *)
(***************************************************************************)
\* The names whose extension is in the autoescape mapping.
EscapedNames == {"t0.html"}

\* The name the call resolved: the first of its names that the source has.
Resolved ==
    call.template_names[CHOOSE k \in 1..Len(call.template_names) :
                            /\ call.template_names[k] \in DOMAIN sources[1]
                            /\ \A j \in 1..(k - 1) :
                                  call.template_names[j] \notin DOMAIN sources[1]]

TurnChunks(item) ==
    (IF Len(sources[1]["t1"]) = 12 /\ Truthy(kwargs["x"]) THEN <<"B">> ELSE <<>>)
        \o <<PyStr(item)>>

\* The chunks a render call of the named template appends, in order.
ChunksOf(name) ==
    CASE name = "t0" -> <<"I", PyStr(kwargs["x"]), "">>
      [] name \in {"t1", "t2"} ->
            <<"A">>
            \o Flatten([k \in 1..Len(kwargs["xs"].v) |-> TurnChunks(kwargs["xs"].v[k])])
            \o <<IF name = "t1" THEN "C" ELSE "E">>
            \o <<"I", PyStr(kwargs["x"]), "">>
            \o <<"D">>
      [] name = "t3" ->
            (IF Truthy(kwargs["x"]) THEN [k \in 1..Len(kwargs["xs"].v) |-> "F"] ELSE <<"G">>)
            \o <<"">>

\* C25: the buffer at the end of a render call holds the chunks of every
\* node of the call, whatever its depth, in the order they were appended,
\* and nothing of an earlier call; render returns their concatenation.
C25_OneBuffer ==
    CallRendered =>
        /\ ~Raised(rendered)
        /\ rendered.buffer = ChunksOf(call.template_names[1])
        /\ rendered.out = JoinWith(rendered.buffer, "")

\* t2 was rendered, after other calls, through its parent, a loop of two
\* turns with an if inside, the overriding block and the include.
C25_Witness ==
    /\ CallRendered
    /\ call.template_names = <<"t2">>
    /\ "t3" \in call.before
    /\ rendered.buffer = <<"A", "B", "1", "B", "2", "E", "I", "1", "", "D">>

(***************************************************************************)
(* Claims on SpecExtends.                                                  *)
(***************************************************************************)
\* What follows the extends tag of t1.
Following == Tail(sources[1]["t1"])

\* The names of the block declarations among the tokens.
BlocksDeclared(tokens) ==
    {tokens[k].lex[2] : k \in {j \in 1..Len(tokens) :
                                   tokens[j].kind = "tag" /\ tokens[j].lex[1] = "block"}}

\* The tokens that are not inside an if, depth being the number of ifs open.
RECURSIVE Outermost(_, _)
Outermost(tokens, depth) ==
    IF tokens = <<>> THEN <<>>
    ELSE LET t == Head(tokens) IN
         IF t.kind = "tag" /\ t.lex[1] = "if" THEN Outermost(Tail(tokens), depth + 1)
         ELSE IF t.kind = "tag" /\ t.lex[1] = "endif" THEN Outermost(Tail(tokens), depth - 1)
         ELSE (IF depth = 0 THEN <<t>> ELSE <<>>) \o Outermost(Tail(tokens), depth)

\* The names of the override set of the compiled t1.
Captured ==
    {cache["t1"][1]._nodes[1].block_nodes[k].name :
        k \in 1..Len(cache["t1"][1]._nodes[1].block_nodes)}

\* What t0 writes when the blocks named are overridden by t1.
ParentWith(names) ==
    "P" \o (IF "a" \in names THEN "ca" ELSE "pa")
        \o (IF "b" \in names THEN "cb" ELSE "pb") \o "Q"

ExtendsRendered == CallRendered /\ call.template_names = <<"t1">>

\* C26: every block declaration that follows an extends tag is in the
\* override set of the template, nothing else that follows is rendered, and
\* the render writes the parent with the override set installed.
C26_ExtendsConsumesRest ==
    ExtendsRendered =>
        /\ ~Raised(rendered)
        /\ Captured = BlocksDeclared(Following)
        /\ rendered.out = ParentWith(BlocksDeclared(Following))

\* The same for the block declarations that are not inside another tag.
ExtendsCapturesOutermost ==
    ExtendsRendered =>
        /\ ~Raised(rendered)
        /\ Captured = BlocksDeclared(Outermost(Following, 0))
        /\ rendered.out = ParentWith(BlocksDeclared(Outermost(Following, 0)))

\* t1 was rendered with a block declaration inside an if after its
\* extends tag, and the parent wrote its own block.
ExtendsDroppedBlock ==
    /\ ExtendsRendered
    /\ "a" \in BlocksDeclared(Following) \ Captured
    /\ rendered.out = "PpapbQ"

(***************************************************************************)
(* Claims on SpecCycle.                                                    *)
(***************************************************************************)
\* The templates the named template includes or extends.
LinkedFrom(name) ==
    {target \in CycleNames :
        \E k \in 1..Len(sources[1][name]) :
            /\ sources[1][name][k].kind = "tag"
            /\ sources[1][name][k].lex[1] \in {"include", "extends"}
            /\ sources[1][name][k].lex[2] = "'" \o target \o "'"}

\* The templates rendered when the named one is, through k links at most.
RECURSIVE Reached(_, _)
Reached(names, k) ==
    IF k = 0 THEN names
    ELSE Reached(names \cup UNION {LinkedFrom(name) : name \in names}, k - 1)

\* The named template includes or extends itself, directly or transitively,
\* or renders one that does.
Cyclic(name) ==
    \E other \in Reached({name}, Cardinality(CycleNames)) :
        other \in Reached(LinkedFrom(other), Cardinality(CycleNames))

\* C27: a render of a template that includes or extends itself, directly
\* or transitively, returns no string: the templates go on rendering one
\* another, each nested in the one before, until the stack is exhausted and
\* the call ends with that failure.
C27_CyclesRecurse ==
    (CallRendered /\ Cyclic(call.template_names[1])) =>
        /\ rendered.exc.cls = "TemplateRenderError"
        /\ rendered.exc.msg = RecursionError.msg
        /\ rendered.out = ""
        /\ Len(rendered.trace) = RecursionLimit + 1

\* A render without a cycle returns a string.
CycleFreeRenders ==
    (CallRendered /\ ~Cyclic(call.template_names[1])) => ~Raised(rendered)

\* t0 was rendered and includes t1, which extends t0.
C27_Witness ==
    /\ CallRendered
    /\ call.template_names = <<"t0">>
    /\ LinkedFrom("t0") = {"t1"}
    /\ LinkedFrom("t1") = {"t0"}
    /\ sources[1]["t0"][1].lex[1] = "include"
    /\ sources[1]["t1"][2].lex[1] = "extends"
    /\ Raised(rendered)
    /\ Len(rendered.trace) = RecursionLimit + 1

(***************************************************************************)
(* Claims on SpecParse.                                                    *)
(***************************************************************************)
Parsed == pc = "parsed"

\* A token as its type and the words a node keeps of it.
TokenWords(tok) ==
    CASE tok.type = "STRING" -> <<"STRING", tok.contents>>
      [] tok.type = "MACRO" /\ tok.lexemes[1] \in {"if", "elif"} ->
            <<"MACRO", tok.lexemes[1], tok.lexemes[2]>>
      [] tok.type = "MACRO" /\ tok.lexemes[1] = "for" ->
            <<"MACRO", "for", tok.lexemes[2], tok.lexemes[4]>>
      [] OTHER -> <<tok.type, tok.lexemes[1]>>

\* The tokens the nodes were made of, fragment by fragment: a node, the
\* nodes of its blocks and the tags that ended the blocks.
RECURSIVE TokensOf(_)
RECURSIVE ClausesOf(_, _)
TokensOf(nodes) ==
    IF nodes = <<>> THEN <<>>
    ELSE LET node == Head(nodes) IN
         (CASE node.type = "StringNode" -> <<<<"STRING", node.value>>>>
            [] node.type = "IfNode" ->
                  ClausesOf(node.clauses, 1)
                  \o (IF node.else_block = <<>> THEN <<>>
                      ELSE <<<<"MACRO", "else">>>> \o TokensOf(node.else_block[1]._nodes))
                  \o <<<<"MACRO", "endif">>>>
            [] node.type = "ForNode" ->
                  <<<<"MACRO", "for", node.name.names[1],
                      node.expression.compiled_expression>>>>
                  \o TokensOf(node.block._nodes) \o <<<<"MACRO", "endfor">>>>)
         \o TokensOf(Tail(nodes))

ClausesOf(clauses, k) ==
    IF k > Len(clauses) THEN <<>>
    ELSE <<<<"MACRO", IF k = 1 THEN "if" ELSE "elif",
             clauses[k].expression.compiled_expression>>>>
         \o TokensOf(clauses[k].block._nodes) \o ClausesOf(clauses, k + 1)

\* C28: compile ends with every token read once, each in one fragment and
\* in the order of the source; whether it fails or not, the tokens are read
\* forwards and no macro is given the same token twice.
C28_SinglePass ==
    Parsed =>
        /\ compiled.pos <= Len(compiled.tokens) + 1
        /\ \A i, j \in 1..Len(compiled.tried) :
              i < j => compiled.tried[i][1] <= compiled.tried[j][1]
                       /\ compiled.tried[i] # compiled.tried[j]
        /\ ~Raised(compiled) =>
              /\ compiled.pos = Len(compiled.tokens) + 1
              /\ TokensOf(compiled.nodes)
                     = [k \in 1..Len(compiled.tokens) |-> TokenWords(compiled.tokens[k])]

\* A template was compiled whose if has a for in its first block and an
\* else: parse_block ran twice for the if and once, nested, for the for.
C28_Witness ==
    /\ Parsed
    /\ ~Raised(compiled)
    /\ source = <<MacroTag(<<"if", "x">>), MacroTag(<<"for", "n", "in", "xs">>),
                  MacroTag(<<"endfor">>), MacroTag(<<"else">>), MacroTag(<<"endif">>)>>
    /\ Len(compiled.nodes) = 2

(***************************************************************************)
(* Claims on SpecStale.                                                    *)
(***************************************************************************)
StaleLoaded == pc = "loaded" /\ call.op = "load"

\* What the first load of the name of the last call did since the cache
\* was last cleared.
FirstLoad == call.first[call.template_names[1]][1]

\* C29: since the last clear_cache, a load of a name does what the first
\* load of the name did, whatever the source has been given since: it
\* raises TemplateDoesNotExist again if the first did, and returns the
\* template the first returned otherwise.
C29_LookupsCached ==
    StaleLoaded =>
        IF Raised(FirstLoad)
        THEN compiled.exc.cls = "TemplateDoesNotExist" /\ compiled.exc = FirstLoad.exc
        ELSE ~Raised(compiled) /\ compiled.template = FirstLoad.template

\* A name was loaded again after a load of it had failed, the source
\* holding data for it by now, and the load failed again.
C29_Witness ==
    /\ StaleLoaded
    /\ call.template_names[1] \in call.before
    /\ call.template_names[1] \in DOMAIN sources[1]
    /\ compiled.exc.cls = "TemplateDoesNotExist"

====
